---- MODULE Spec2Model ----
(***************************************************************************)
(* Model of the FreeType/fontconfig rasterizer of the `font` crate         *)
(* (font/src/ft/mod.rs, font/src/lib.rs): the face cache, the font key     *)
(* allocator, font loading and glyph fallback resolution.                  *)
(*                                                                         *)
(* Conventions.  A Rust Option, and a fontconfig attribute iterator, is a  *)
(* sequence: <<>> is None / an exhausted iterator and <<x>> is Some(x) /   *)
(* an iterator whose first element is x.  A HashMap is a function whose    *)
(* DOMAIN is the set of its keys.  A FontKey is its u16 token.             *)
(***************************************************************************)
EXTENDS Integers, Sequences, FiniteSets, TLC

VARIABLES
    faces,               \* FreeTypeRasterizer.faces : HashMap<FontKey, Face>
    keys,                \* FreeTypeRasterizer.keys  : HashMap<PathBuf, FontKey>
    device_pixel_ratio,  \* FreeTypeRasterizer.device_pixel_ratio
    pixel_size,          \* FreeTypeRasterizer.pixel_size, in half pixels
    TOKEN,               \* the process-wide static counter of FontKey::next
    lcd_filter,          \* the FreeType library's render-time LCD filter
    issued,              \* the keys FontKey::next has returned to this rasterizer
    externals,           \* how often other engine instances have allocated keys
    ret                  \* what the last call did and returned

vars == <<faces, keys, device_pixel_ratio, pixel_size, TOKEN, lcd_filter,
          issued, externals, ret>>

----------------------------------------------------------------------------
(* Widths.                                                                 *)

\* FontKey.token is a u16: `TOKEN.fetch_add(1, ..) as _` keeps the low 16 bits.
TokenModulus == 2 ^ 16

\* TOKEN itself is an AtomicUsize (64 bits on the supported targets); the
\* model stops far below 2^64, so its own wrap-around is never reached.

----------------------------------------------------------------------------
(* Bounds of the model.                                                    *)

\* How many times other engine instances of the process allocate keys.
MaxExternal == 1

\* The sizes of the batches in which other engine instances allocate keys:
\* as many keys as bring the u16 token back to the value it had before this
\* rasterizer's previous allocation.
AllocBatch == {TokenModulus - 1}

\* The characters requested.
Chars == {"a", "z"}

\* Size values (Size.0: half points) passed by the renderer.
Sizes == {12}

\* Device pixel ratios.
Ratios == {1, 2}

----------------------------------------------------------------------------
(* The outline backend: what the font files contain.                       *)

\* freetype::Face::get_char_index of the face at (path, index); 0 = absent.
get_char_index(ft_face, c) ==
    CASE ft_face.path = "mono.ttf" /\ c = "a" -> 1
      [] ft_face.path = "emoji.ttc" /\ ft_face.index = 1 /\ c = "z" -> 2
      [] OTHER -> 0

\* freetype::Face::has_color of the face loaded from path.
has_color(ft_face) == ft_face.path = "emoji.ttc"

----------------------------------------------------------------------------
(* The font-matching backend: the patterns fc::font_match can return.      *)

\* Rendering attributes of a match: a scalable LCD font.
ProfileLcd ==
    [scalable |-> <<TRUE>>, pixelsize |-> <<>>, antialias |-> <<TRUE>>,
     hintstyle |-> <<"Full">>, rgba |-> <<"Rgb">>, embeddedbitmap |-> <<>>,
     color |-> <<>>, lcdfilter |-> <<"Light">>]

\* Rendering attributes of a match: a bitmap font with one strike.
ProfileBitmap ==
    [scalable |-> <<FALSE>>, pixelsize |-> <<20>>, antialias |-> <<FALSE>>,
     hintstyle |-> <<"None">>, rgba |-> <<>>, embeddedbitmap |-> <<FALSE>>,
     color |-> <<TRUE>>, lcdfilter |-> <<>>]

\* A pixelsizefixupfactor of 0.5; factors are in hundredths.
Half == <<50>>

MkPattern(file, index, fixup, pr) ==
    [file |-> file, index |-> index, pixelsizefixupfactor |-> fixup,
     scalable |-> pr.scalable, pixelsize |-> pr.pixelsize,
     antialias |-> pr.antialias, hintstyle |-> pr.hintstyle, rgba |-> pr.rgba,
     embeddedbitmap |-> pr.embeddedbitmap, color |-> pr.color,
     lcdfilter |-> pr.lcdfilter]

\* What fc::font_match answers: None, or Some(pattern); a pattern may lack
\* its file or its index.
Patterns ==
    {MkPattern(<<"mono.ttf">>, <<0>>, <<>>, ProfileLcd),
     MkPattern(<<"emoji.ttc">>, <<0>>, Half, ProfileBitmap),
     MkPattern(<<"emoji.ttc">>, <<1>>, <<>>, ProfileLcd),
     MkPattern(<<>>, <<0>>, <<>>, ProfileLcd),
     MkPattern(<<"mono.ttf">>, <<>>, <<>>, ProfileLcd)}

FontMatches == {<<>>} \cup {<<p>> : p \in Patterns}

\* Option::unwrap_or / Iterator::next().unwrap_or(d)
unwrap_or(opt, d) == IF opt = <<>> THEN d ELSE opt[1]

----------------------------------------------------------------------------
(* Font descriptions.                                                      *)

Description(slant, weight) ==
    [kind |-> "Description", specific |-> "", slant |-> slant, weight |-> weight]

Specific(s) ==
    [kind |-> "Specific", specific |-> s, slant |-> "", weight |-> ""]

\* FontDesc::new
FontDesc_new(name, style) == [name |-> name, style |-> style]

\* The descriptions the renderer asks for.
Descs == {FontDesc_new("Mono", Description("Normal", "Normal")),
          FontDesc_new("Emoji", Specific("Regular"))}

----------------------------------------------------------------------------
(* font/src/lib.rs                                                         *)

\* FontKey::next on a counter holding tok: the key returned and the counter
\* afterwards.
FontKey_next(tok) == [key |-> tok % TokenModulus, TOKEN |-> tok + 1]

\* Size::new(size.as_f32_pts() * device_pixel_ratio * 96. / 72.): size and the
\* result are Size.0 values (half points); the cast to i16 truncates.
get_face_size(size, dpr) == (size * dpr * 96) \div 72

----------------------------------------------------------------------------
(* font/src/ft/mod.rs: attributes derived from a pattern.                  *)

\* An ft_load_flags that takes LCD hinting for hintslight too when a
\* horizontal subpixel order is selected.
ft_load_flags_slight_lcd(pat) ==
    LET antialias == unwrap_or(pat.antialias, TRUE)
        hinting == unwrap_or(pat.hintstyle, "Slight")
        rgba == unwrap_or(pat.rgba, "Unknown")
        embedded_bitmaps == unwrap_or(pat.embeddedbitmap, TRUE)
        color == unwrap_or(pat.color, FALSE)
        flags ==
            CASE ~antialias /\ hinting = "None" -> {"NO_HINTING", "MONOCHROME"}
              [] ~antialias /\ hinting # "None" -> {"TARGET_MONO", "MONOCHROME"}
              [] antialias /\ hinting = "None" -> {"NO_HINTING", "TARGET_NORMAL"}
              [] antialias /\ hinting # "None"
                    /\ rgba \in {"Rgb", "Bgr"} -> {"TARGET_LCD"}
              [] antialias /\ hinting = "Slight"
                    /\ rgba \notin {"Rgb", "Bgr"} -> {"TARGET_LIGHT"}
              [] antialias /\ hinting \notin {"None", "Slight"}
                    /\ rgba \in {"Vrgb", "Vbgr"} -> {"TARGET_LCD_V"}
              [] OTHER -> {"TARGET_NORMAL"}
    IN  flags \cup (IF ~embedded_bitmaps THEN {"NO_BITMAP"} ELSE {})
              \cup (IF color THEN {"COLOR"} ELSE {})

\* FreeTypeRasterizer::ft_load_flags
ft_load_flags(pat) ==
    LET antialias == unwrap_or(pat.antialias, TRUE)
        hinting == unwrap_or(pat.hintstyle, "Slight")
        rgba == unwrap_or(pat.rgba, "Unknown")
        embedded_bitmaps == unwrap_or(pat.embeddedbitmap, TRUE)
        color == unwrap_or(pat.color, FALSE)
        flags ==
            CASE ~antialias /\ hinting = "None" -> {"NO_HINTING", "MONOCHROME"}
              [] ~antialias /\ hinting # "None" -> {"TARGET_MONO", "MONOCHROME"}
              [] antialias /\ hinting = "None" -> {"NO_HINTING", "TARGET_NORMAL"}
              [] antialias /\ hinting = "Slight" -> {"TARGET_LIGHT"}
              [] antialias /\ hinting \notin {"None", "Slight"}
                    /\ rgba \in {"Rgb", "Bgr"} -> {"TARGET_LCD"}
              [] antialias /\ hinting \notin {"None", "Slight"}
                    /\ rgba \in {"Vrgb", "Vbgr"} -> {"TARGET_LCD_V"}
              [] OTHER -> {"TARGET_NORMAL"}
    IN  flags \cup (IF ~embedded_bitmaps THEN {"NO_BITMAP"} ELSE {})
              \cup (IF color THEN {"COLOR"} ELSE {})

\* An ft_render_mode that renders without subpixels when hinting is off.
ft_render_mode_hinted(pat) ==
    LET antialias == unwrap_or(pat.antialias, TRUE)
        rgba == unwrap_or(pat.rgba, "Unknown")
        hinting == unwrap_or(pat.hintstyle, "Slight")
    IN  CASE ~antialias -> "Mono"
          [] antialias /\ hinting = "None" -> "Normal"
          [] antialias /\ hinting # "None" /\ rgba \in {"Rgb", "Bgr"} -> "Lcd"
          [] antialias /\ hinting # "None" /\ rgba \in {"Vrgb", "Vbgr"} -> "LcdV"
          [] OTHER -> "Normal"

\* FreeTypeRasterizer::ft_render_mode
ft_render_mode(pat) ==
    LET antialias == unwrap_or(pat.antialias, TRUE)
        rgba == unwrap_or(pat.rgba, "Unknown")
    IN  CASE ~antialias -> "Mono"
          [] antialias /\ rgba \in {"Rgb", "Bgr"} -> "Lcd"
          [] antialias /\ rgba \in {"Vrgb", "Vbgr"} -> "LcdV"
          [] OTHER -> "Normal"

ft_lcd_filter(pat) ==
    LET f == unwrap_or(pat.lcdfilter, "Default")
    IN  CASE f = "None" -> "FT_LCD_FILTER_NONE"
          [] f = "Default" -> "FT_LCD_FILTER_DEFAULT"
          [] f = "Light" -> "FT_LCD_FILTER_LIGHT"
          [] f = "Legacy" -> "FT_LCD_FILTER_LEGACY"

----------------------------------------------------------------------------
(* font/src/ft/mod.rs: the face cache.                                     *)

\* A HashMap::insert that stores nothing.
insert_nothing(map, k, v) == map

\* HashMap::insert: the entry of k is added, or replaced when k is present.
insert(map, k, v) ==
    [x \in DOMAIN map \cup {k} |-> IF x = k THEN v ELSE map[x]]

\* A lookup that never finds the path.
keys_get_miss(ks, path) == <<>>

\* self.keys.get(&path)
keys_get(ks, path) == IF path \in DOMAIN ks THEN <<ks[path]>> ELSE <<>>

\* The value of a call that loads nothing and leaves the cache as it is.
Unchanged(fs, ks, tok) ==
    [tag |-> "Ok", key |-> <<>>, desc |-> <<>>, faces |-> fs, keys |-> ks,
     TOKEN |-> tok, queries |-> 0, loads |-> <<>>, created |-> <<>>,
     dropped |-> <<>>, reentries |-> 0]

\* A face_from_pattern that takes its FontKey before it loads the file: a
\* failed load has consumed a key.
face_from_pattern_eager(fs, ks, tok, pattern, ftOk) ==
    IF pattern.file # <<>> /\ pattern.index # <<>>
    THEN LET path == pattern.file[1]
             index == pattern.index[1]
             ft_face == [path |-> path, index |-> index]
             scalable == unwrap_or(pattern.scalable, TRUE)
             next == FontKey_next(tok)
             face == [ft_face |-> ft_face,
                      key |-> next.key,
                      load_flags |-> ft_load_flags(pattern),
                      render_mode |-> ft_render_mode(pattern),
                      lcd_filter |-> ft_lcd_filter(pattern),
                      non_scalable |->
                          IF scalable THEN <<>> ELSE <<pattern.pixelsize[1]>>,
                      has_color |-> has_color(ft_face),
                      pixelsize_fixup_factor |->
                          unwrap_or(pattern.pixelsizefixupfactor, 0)]
         IN  IF keys_get(ks, path) # <<>>
             THEN [Unchanged(fs, ks, tok) EXCEPT !.key = keys_get(ks, path)]
             ELSE IF ~ftOk
             THEN [Unchanged(fs, ks, next.TOKEN) EXCEPT
                       !.tag = "FreeType", !.loads = <<path>>]
             ELSE IF ~scalable /\ pattern.pixelsize = <<>>
             THEN [Unchanged(fs, ks, tok) EXCEPT
                       !.tag = "Panic", !.loads = <<path>>]
             ELSE [tag |-> "Ok", key |-> <<face.key>>, desc |-> <<>>,
                   faces |-> insert(fs, face.key, face),
                   keys |-> insert(ks, path, face.key),
                   TOKEN |-> next.TOKEN, queries |-> 0,
                   loads |-> <<path>>, created |-> <<face.key>>,
                   dropped |-> <<>>, reentries |-> 0]
    ELSE Unchanged(fs, ks, tok)

\* A face_from_pattern that, when the path is indexed, refreshes the cached
\* Face's pixelsize_fixup_factor from the pattern.
face_from_pattern_refresh(fs, ks, tok, pattern, ftOk) ==
    IF pattern.file # <<>> /\ pattern.index # <<>>
    THEN LET path == pattern.file[1]
             index == pattern.index[1]
             ft_face == [path |-> path, index |-> index]
             scalable == unwrap_or(pattern.scalable, TRUE)
             next == FontKey_next(tok)
             face == [ft_face |-> ft_face,
                      key |-> next.key,
                      load_flags |-> ft_load_flags(pattern),
                      render_mode |-> ft_render_mode(pattern),
                      lcd_filter |-> ft_lcd_filter(pattern),
                      non_scalable |->
                          IF scalable THEN <<>> ELSE <<pattern.pixelsize[1]>>,
                      has_color |-> has_color(ft_face),
                      pixelsize_fixup_factor |->
                          unwrap_or(pattern.pixelsizefixupfactor, 0)]
         IN  IF keys_get(ks, path) # <<>>
             THEN [Unchanged(fs, ks, tok) EXCEPT
                      !.key = keys_get(ks, path),
                      !.faces = [fs EXCEPT
                          ![keys_get(ks, path)[1]].pixelsize_fixup_factor =
                              unwrap_or(pattern.pixelsizefixupfactor, 0)]]
             ELSE IF ~ftOk
             THEN [Unchanged(fs, ks, tok) EXCEPT
                       !.tag = "FreeType", !.loads = <<path>>]
             ELSE IF ~scalable /\ pattern.pixelsize = <<>>
             THEN [Unchanged(fs, ks, tok) EXCEPT
                       !.tag = "Panic", !.loads = <<path>>]
             ELSE [tag |-> "Ok", key |-> <<face.key>>, desc |-> <<>>,
                   faces |-> insert(fs, face.key, face),
                   keys |-> insert(ks, path, face.key),
                   TOKEN |-> next.TOKEN, queries |-> 0,
                   loads |-> <<path>>, created |-> <<face.key>>,
                   dropped |-> <<>>, reentries |-> 0]
    ELSE Unchanged(fs, ks, tok)

\* FreeTypeRasterizer::face_from_pattern on the cache (fs, ks) and the counter
\* tok.  ftOk: whether Library::new_face succeeds.  In the value, queries is
\* the number of charset-fallback queries issued, loads the paths handed to
\* Library::new_face, created the keys of the Faces created, dropped the Err
\* a caller discarded and reentries the number of times face_for_glyph called
\* itself (it never does).  tag "Ok" with key <<k>> is
\* Ok(Some(k)), with key <<>> it is Ok(None); "FreeType" is the Err of
\* new_face; "Panic" is the failed expect("has 1+ pixelsize").
face_from_pattern(fs, ks, tok, pattern, ftOk) ==
    IF pattern.file # <<>> /\ pattern.index # <<>>
    THEN LET path == pattern.file[1]
             index == pattern.index[1]
             ft_face == [path |-> path, index |-> index]
             scalable == unwrap_or(pattern.scalable, TRUE)
             next == FontKey_next(tok)
             face == [ft_face |-> ft_face,
                      key |-> next.key,
                      load_flags |-> ft_load_flags(pattern),
                      render_mode |-> ft_render_mode(pattern),
                      lcd_filter |-> ft_lcd_filter(pattern),
                      non_scalable |->
                          IF scalable THEN <<>> ELSE <<pattern.pixelsize[1]>>,
                      has_color |-> has_color(ft_face),
                      pixelsize_fixup_factor |->
                          unwrap_or(pattern.pixelsizefixupfactor, 0)]
         IN  IF keys_get(ks, path) # <<>>
             THEN [Unchanged(fs, ks, tok) EXCEPT !.key = keys_get(ks, path)]
             ELSE IF ~ftOk
             THEN [Unchanged(fs, ks, tok) EXCEPT
                       !.tag = "FreeType", !.loads = <<path>>]
             ELSE IF ~scalable /\ pattern.pixelsize = <<>>
             THEN [Unchanged(fs, ks, tok) EXCEPT
                       !.tag = "Panic", !.loads = <<path>>]
             ELSE [tag |-> "Ok", key |-> <<face.key>>, desc |-> <<>>,
                   faces |-> insert(fs, face.key, face),
                   keys |-> insert(ks, path, face.key),
                   TOKEN |-> next.TOKEN, queries |-> 0,
                   loads |-> <<path>>, created |-> <<face.key>>,
                   dropped |-> <<>>, reentries |-> 0]
    ELSE Unchanged(fs, ks, tok)

\* A load_face_with_glyph that returns the key of an indexed path without
\* refreshing the Face's pixelsize_fixup_factor.
load_face_with_glyph_stale(fs, ks, tok, glyph, m, ftOk) ==
    IF m # <<>>
    THEN LET pattern == m[1] IN
         IF pattern.file # <<>> /\ pattern.index # <<>>
         THEN LET path == pattern.file[1] IN
              IF keys_get(ks, path) # <<>>
              THEN [Unchanged(fs, ks, tok) EXCEPT
                       !.key = keys_get(ks, path), !.queries = 1]
              ELSE [face_from_pattern(fs, ks, tok, pattern, ftOk) EXCEPT
                       !.queries = 1]
         ELSE [Unchanged(fs, ks, tok) EXCEPT
                  !.tag = "MissingFont", !.queries = 1,
                  !.desc = <<FontDesc_new("fallback-without-path", Specific(glyph))>>]
    ELSE [Unchanged(fs, ks, tok) EXCEPT
             !.tag = "MissingFont", !.queries = 1,
             !.desc = <<FontDesc_new("no-fallback-for", Specific(glyph))>>]

\* FreeTypeRasterizer::load_face_with_glyph.  m: the answer of fc::font_match
\* to the single-character charset query.
load_face_with_glyph(fs, ks, tok, glyph, m, ftOk) ==
    IF m # <<>>
    THEN LET pattern == m[1] IN
         IF pattern.file # <<>> /\ pattern.index # <<>>
         THEN LET path == pattern.file[1] IN
              IF keys_get(ks, path) # <<>>
              THEN LET key == keys_get(ks, path)[1] IN
                   [Unchanged(fs, ks, tok) EXCEPT
                       !.key = <<key>>, !.queries = 1,
                       !.faces = [fs EXCEPT ![key].pixelsize_fixup_factor =
                                     unwrap_or(pattern.pixelsizefixupfactor, 0)]]
              ELSE [face_from_pattern(fs, ks, tok, pattern, ftOk) EXCEPT
                       !.queries = 1]
         ELSE [Unchanged(fs, ks, tok) EXCEPT
                  !.tag = "MissingFont", !.queries = 1,
                  !.desc = <<FontDesc_new("fallback-without-path", Specific(glyph))>>]
    ELSE [Unchanged(fs, ks, tok) EXCEPT
             !.tag = "MissingFont", !.queries = 1,
             !.desc = <<FontDesc_new("no-fallback-for", Specific(glyph))>>]

\* A test of the primary face that takes a mapped character for a missing one.
use_initial_face_inverted(fs, glyph_key, have_recursed) ==
    IF glyph_key.font_key \in DOMAIN fs
    THEN get_char_index(fs[glyph_key.font_key].ft_face, glyph_key.c) = 0
         \/ have_recursed
    ELSE FALSE

\* use_initial_face of face_for_glyph: the primary face is registered and
\* maps the character, or this is already a fallback attempt.
use_initial_face(fs, glyph_key, have_recursed) ==
    IF glyph_key.font_key \in DOMAIN fs
    THEN get_char_index(fs[glyph_key.font_key].ft_face, glyph_key.c) # 0
         \/ have_recursed
    ELSE FALSE

\* Result::unwrap_or(key) on the result r of a call: an Err is discarded and
\* key is the value; a panic of the call is no Result and goes on unwinding.
\* dropped records the discarded Err.
result_unwrap_or(r, key) ==
    IF r.tag \in {"Ok", "Panic"} THEN r
    ELSE [r EXCEPT !.tag = "Ok", !.key = <<key>>, !.desc = <<>>,
                   !.dropped = <<r.tag>>]

\* A face_for_glyph that, when the fallback search fails, searches again
\* instead of giving up.
face_for_glyph_retry(fs, ks, tok, glyph_key, have_recursed, m, ftOk) ==
    IF use_initial_face(fs, glyph_key, have_recursed)
    THEN [Unchanged(fs, ks, tok) EXCEPT !.key = <<glyph_key.font_key>>]
    ELSE LET r == load_face_with_glyph(fs, ks, tok, glyph_key.c, m, ftOk) IN
         IF r.tag = "Ok" THEN r
         ELSE [result_unwrap_or(r, glyph_key.font_key) EXCEPT
                  !.queries = 2, !.reentries = 1]

\* FreeTypeRasterizer::face_for_glyph.
face_for_glyph(fs, ks, tok, glyph_key, have_recursed, m, ftOk) ==
    IF use_initial_face(fs, glyph_key, have_recursed)
    THEN [Unchanged(fs, ks, tok) EXCEPT !.key = <<glyph_key.font_key>>]
    ELSE result_unwrap_or(
             load_face_with_glyph(fs, ks, tok, glyph_key.c, m, ftOk),
             glyph_key.font_key)


----------------------------------------------------------------------------
(* The calls of the Rasterize trait, as actions.                           *)

\* The record of the last call: op is the call; outcome its result ("Ok", an
\* Error variant, or "Panic"); key the FontKey returned (load_font) or
\* resolved (get_glyph); desc the FontDesc of a MissingFont; font_key and c
\* the FontKey and character arguments; query the pattern load_font hands to
\* fc::font_match; match the answer of fc::font_match; queries the number of charset-fallback queries
\* issued; loads the paths handed to Library::new_face; created the keys of
\* the Faces created; dropped the error face_for_glyph discarded; reentries
\* the number of times face_for_glyph called itself; repeats the key returned
\* by the call just before, when that call was a successful load_font with
\* the same query, answered with the same match, as this load_font; index
\* the glyph index get_rendered_glyph looked up in the resolved Face; rend
\* what the outline backend did with the glyph.
NoCall ==
    [op |-> "new", outcome |-> "Ok", key |-> <<>>, desc |-> <<>>,
     font_key |-> <<>>, c |-> "", query |-> <<>>, match |-> <<>>,
     queries |-> 0, loads |-> <<>>, created |-> <<>>, dropped |-> <<>>,
     reentries |-> 0, repeats |-> <<>>, index |-> <<>>, rend |-> ""]

\* Rasterize::new
Init ==
    /\ faces = <<>>
    /\ keys = <<>>
    /\ device_pixel_ratio \in Ratios
    /\ pixel_size = 0
    /\ TOKEN = 0
    /\ lcd_filter = "FT_LCD_FILTER_NONE"
    /\ issued = {}
    /\ externals = 0
    /\ ret = NoCall

\* A panic ends the process.
Running == ret.outcome # "Panic"

\* The pattern get_matching_face / get_specific_face hands to fc::font_match.
load_query(desc, size) ==
    IF desc.style.kind = "Description"
    THEN [family |-> desc.name, style |-> "", weight |-> <<desc.style.weight>>,
          slant |-> <<desc.style.slant>>, pixelsize |-> size]
    ELSE [family |-> desc.name, style |-> desc.style.specific, weight |-> <<>>,
          slant |-> <<>>, pixelsize |-> size]

\* A get_face whose MissingFont carries a synthesized description instead of
\* the requested one.
get_face_unnamed(fs, ks, tok, desc, m, ftOk) ==
    IF m = <<>>
    THEN [Unchanged(fs, ks, tok) EXCEPT
             !.tag = "MissingFont",
             !.desc = <<FontDesc_new("no-match", Specific(desc.name))>>]
    ELSE LET f == face_from_pattern(fs, ks, tok, m[1], ftOk) IN
         IF f.tag = "Ok" /\ f.key = <<>>
         THEN [f EXCEPT !.tag = "MissingFont",
                        !.desc = <<FontDesc_new("no-match", Specific(desc.name))>>]
         ELSE f

\* get_face, then get_matching_face or get_specific_face, on the cache
\* (fs, ks) and the counter tok.  m: the answer of fc::font_match.
get_face(fs, ks, tok, desc, m, ftOk) ==
    IF m = <<>>
    THEN [Unchanged(fs, ks, tok) EXCEPT !.tag = "MissingFont", !.desc = <<desc>>]
    ELSE LET f == face_from_pattern(fs, ks, tok, m[1], ftOk) IN
         IF f.tag = "Ok" /\ f.key = <<>>
         THEN [f EXCEPT !.tag = "MissingFont", !.desc = <<desc>>]
         ELSE f

\* Rasterize::load_font.  ftOk: whether Library::new_face succeeds (TRUE when
\* it is not called).
load_font(desc, size, m, ftOk) ==
    \E r \in {get_face(faces, keys, TOKEN, desc, m, ftOk)} :
    LET px == get_face_size(size, device_pixel_ratio)
    IN  /\ Running
        /\ r.loads = <<>> => ftOk
        /\ pixel_size' = px
        /\ faces' = r.faces
        /\ keys' = r.keys
        /\ TOKEN' = r.TOKEN
        /\ issued' = issued \cup {r.created[i] : i \in DOMAIN r.created}
        /\ ret' = [NoCall EXCEPT
                      !.op = "load_font", !.outcome = r.tag, !.key = r.key,
                      !.desc = r.desc, !.query = <<load_query(desc, px)>>,
                      !.match = m, !.loads = r.loads, !.created = r.created,
                      !.repeats =
                          IF /\ ret.op = "load_font" /\ ret.outcome = "Ok"
                             /\ ret.query = <<load_query(desc, px)>>
                             /\ ret.match = m
                          THEN ret.key ELSE <<>>]
        /\ UNCHANGED <<device_pixel_ratio, lcd_filter, externals>>

\* What the outline backend does with the glyph of a get_glyph call: every
\* step succeeds ("ok"); set_char_size fails; a later step fails (load_glyph,
\* render_glyph, or the bitmap's pixel mode is one freetype does not know:
\* "render"); or the conversion of the rendered bitmap panics (a pixel mode
\* normalize_buffer does not handle, a bitmap downsample_bitmap faults on:
\* "unhandled").
RenderOutcomes == {"ok", "set_char_size", "render", "unhandled"}

\* A get_rendered_glyph that never calls FT_Library_SetLcdFilter.
get_glyph_unfiltered(glyph_key, m, ftOk, rend) ==
    \E r \in {face_for_glyph(faces, keys, TOKEN, glyph_key, FALSE, m, ftOk)} :
    LET font_key == r.key[1]
        registered == r.tag = "Ok" /\ font_key \in DOMAIN r.faces
        face == r.faces[font_key]
        outcome ==
            IF r.tag = "Panic" \/ ~registered THEN "Panic"
            ELSE CASE rend = "ok" -> "Ok"
                   [] rend = "unhandled" -> "Panic"
                   [] OTHER -> "FreeType"
    IN  /\ Running
        /\ r.queries = 0 => m = <<>>
        /\ r.loads = <<>> => ftOk
        /\ ~registered => rend = "ok"
        /\ registered /\ face.has_color => rend # "set_char_size"
        /\ faces' = r.faces
        /\ keys' = r.keys
        /\ TOKEN' = r.TOKEN
        /\ issued' = issued \cup {r.created[i] : i \in DOMAIN r.created}
        /\ lcd_filter' = lcd_filter
        /\ ret' = [NoCall EXCEPT
                      !.op = "get_glyph", !.outcome = outcome,
                      !.key = IF r.tag = "Ok" THEN r.key ELSE <<>>,
                      !.font_key = <<glyph_key.font_key>>, !.c = glyph_key.c,
                      !.match = m, !.queries = r.queries, !.loads = r.loads,
                      !.created = r.created, !.dropped = r.dropped,
                      !.reentries = r.reentries,
                      !.index = IF registered
                                THEN <<get_char_index(face.ft_face,
                                                      glyph_key.c)>>
                                ELSE <<>>,
                      !.rend = rend]
        /\ UNCHANGED <<device_pixel_ratio, pixel_size, externals>>

\* A get_rendered_glyph that takes glyph index 0 for a failure and reports
\* the font as missing.
get_glyph_notdef_error(glyph_key, m, ftOk, rend) ==
    \E r \in {face_for_glyph(faces, keys, TOKEN, glyph_key, FALSE, m, ftOk)} :
    LET font_key == r.key[1]
        registered == r.tag = "Ok" /\ font_key \in DOMAIN r.faces
        face == r.faces[font_key]
        filtered == registered /\ ~face.has_color /\ rend # "set_char_size"
        outcome ==
            IF r.tag = "Panic" \/ ~registered THEN "Panic"
            ELSE IF get_char_index(face.ft_face, glyph_key.c) = 0
            THEN "MissingFont"
            ELSE CASE rend = "ok" -> "Ok"
                   [] rend = "unhandled" -> "Panic"
                   [] OTHER -> "FreeType"
    IN  /\ Running
        /\ r.queries = 0 => m = <<>>
        /\ r.loads = <<>> => ftOk
        /\ ~registered => rend = "ok"
        /\ registered /\ face.has_color => rend # "set_char_size"
        /\ faces' = r.faces
        /\ keys' = r.keys
        /\ TOKEN' = r.TOKEN
        /\ issued' = issued \cup {r.created[i] : i \in DOMAIN r.created}
        /\ lcd_filter' = IF filtered THEN face.lcd_filter ELSE lcd_filter
        /\ ret' = [NoCall EXCEPT
                      !.op = "get_glyph", !.outcome = outcome,
                      !.key = IF r.tag = "Ok" THEN r.key ELSE <<>>,
                      !.font_key = <<glyph_key.font_key>>, !.c = glyph_key.c,
                      !.match = m, !.queries = r.queries, !.loads = r.loads,
                      !.created = r.created, !.dropped = r.dropped,
                      !.reentries = r.reentries,
                      !.index = IF registered
                                THEN <<get_char_index(face.ft_face,
                                                      glyph_key.c)>>
                                ELSE <<>>,
                      !.rend = rend]
        /\ UNCHANGED <<device_pixel_ratio, pixel_size, externals>>

\* Rasterize::get_glyph = get_rendered_glyph.  m, ftOk and rend are the
\* backends' answers (<<>>, TRUE and "ok" when the backend is not asked).
get_glyph(glyph_key, m, ftOk, rend) ==
    \E r \in {face_for_glyph(faces, keys, TOKEN, glyph_key, FALSE, m, ftOk)} :
    LET font_key == r.key[1]
        registered == r.tag = "Ok" /\ font_key \in DOMAIN r.faces
        face == r.faces[font_key]
        filtered == registered /\ ~face.has_color /\ rend # "set_char_size"
        outcome ==
            IF r.tag = "Panic" \/ ~registered THEN "Panic"
            ELSE CASE rend = "ok" -> "Ok"
                   [] rend = "unhandled" -> "Panic"
                   [] OTHER -> "FreeType"
    IN  /\ Running
        /\ r.queries = 0 => m = <<>>
        /\ r.loads = <<>> => ftOk
        /\ ~registered => rend = "ok"
        /\ registered /\ face.has_color => rend # "set_char_size"
        /\ faces' = r.faces
        /\ keys' = r.keys
        /\ TOKEN' = r.TOKEN
        /\ issued' = issued \cup {r.created[i] : i \in DOMAIN r.created}
        /\ lcd_filter' = IF filtered THEN face.lcd_filter ELSE lcd_filter
        /\ ret' = [NoCall EXCEPT
                      !.op = "get_glyph", !.outcome = outcome,
                      !.key = IF r.tag = "Ok" THEN r.key ELSE <<>>,
                      !.font_key = <<glyph_key.font_key>>, !.c = glyph_key.c,
                      !.match = m, !.queries = r.queries, !.loads = r.loads,
                      !.created = r.created, !.dropped = r.dropped,
                      !.reentries = r.reentries,
                      !.index = IF registered
                                THEN <<get_char_index(face.ft_face,
                                                      glyph_key.c)>>
                                ELSE <<>>,
                      !.rend = rend]
        /\ UNCHANGED <<device_pixel_ratio, pixel_size, externals>>

\* Rasterize::metrics, with full_metrics.  sized: whether the face has size
\* metrics (TRUE when it is not asked).
metrics(key, sized) ==
    /\ Running
    /\ key \notin DOMAIN faces => sized
    /\ ret' = [NoCall EXCEPT
                  !.op = "metrics", !.font_key = <<key>>,
                  !.outcome = IF key \notin DOMAIN faces THEN "FontNotLoaded"
                              ELSE IF ~sized THEN "MissingSizeMetrics"
                              ELSE "Ok"]
    /\ UNCHANGED <<faces, keys, device_pixel_ratio, pixel_size, TOKEN,
                   lcd_filter, issued, externals>>

\* An update_dpr that also drops every cached Face and indexed path.
update_dpr_flush(ratio) ==
    /\ Running
    /\ device_pixel_ratio' = ratio
    /\ faces' = <<>>
    /\ keys' = <<>>
    /\ ret' = [NoCall EXCEPT !.op = "update_dpr"]
    /\ UNCHANGED <<pixel_size, TOKEN, lcd_filter, issued, externals>>

\* Rasterize::update_dpr
update_dpr(ratio) ==
    /\ Running
    /\ device_pixel_ratio' = ratio
    /\ ret' = [NoCall EXCEPT !.op = "update_dpr"]
    /\ UNCHANGED <<faces, keys, pixel_size, TOKEN, lcd_filter, issued, externals>>

\* Other engine instances of the process call FontKey::next n times; the
\* counter is one static shared by the whole process.
other_instances_next(n) ==
    /\ Running
    /\ externals < MaxExternal
    /\ TOKEN' = TOKEN + n
    /\ externals' = externals + 1
    /\ ret' = [NoCall EXCEPT !.op = "other_next"]
    /\ UNCHANGED <<faces, keys, device_pixel_ratio, pixel_size, lcd_filter, issued>>

\* The FontKeys a caller may pass: the registered ones, and one that is not
\* registered (the key the allocator would hand out next).
FontKeys == DOMAIN faces \cup {FontKey_next(TOKEN).key}

\* The GlyphKeys a caller may pass.
GlyphKeys == [c : Chars, font_key : FontKeys, size : Sizes]

LoadFont ==
    \E desc \in Descs, size \in Sizes, m \in FontMatches, ftOk \in BOOLEAN :
        load_font(desc, size, m, ftOk)

GetGlyph ==
    \E glyph_key \in GlyphKeys, m \in FontMatches, ftOk \in BOOLEAN,
       rend \in RenderOutcomes :
        get_glyph(glyph_key, m, ftOk, rend)

Metrics == \E k \in FontKeys, sized \in BOOLEAN : metrics(k, sized)

UpdateDpr == \E ratio \in Ratios : update_dpr(ratio)

OtherInstancesNext == \E n \in AllocBatch : other_instances_next(n)

Next == LoadFont \/ GetGlyph \/ Metrics \/ UpdateDpr \/ OtherInstancesNext

Spec == Init /\ [][Next]_vars

----------------------------------------------------------------------------
(* The same calls over fonts whose Faces store different lcd filters.      *)

\* Rendering attributes of a match: a scalable LCD font with the legacy
\* filter.
ProfileLegacy == [ProfileLcd EXCEPT !.lcdfilter = <<"Legacy">>]

\* What fc::font_match answers: two fonts without color, with the filters
\* Light and Legacy, and a color font.
PatternsLcd ==
    {MkPattern(<<"mono.ttf">>, <<0>>, <<>>, ProfileLcd),
     MkPattern(<<"serif.ttf">>, <<0>>, <<>>, ProfileLegacy),
     MkPattern(<<"emoji.ttc">>, <<0>>, Half, ProfileBitmap)}

FontMatchesLcd == {<<>>} \cup {<<p>> : p \in PatternsLcd}

\* The description and the character the renderer asks for.
DescsLcd == {FontDesc_new("Mono", Description("Normal", "Normal"))}

CharsLcd == {"a"}

LoadFontLcd ==
    \E desc \in DescsLcd, size \in Sizes, m \in FontMatchesLcd,
       ftOk \in BOOLEAN :
        load_font(desc, size, m, ftOk)

GetGlyphLcd ==
    \E c \in CharsLcd, font_key \in FontKeys, size \in Sizes,
       m \in FontMatchesLcd, ftOk \in BOOLEAN, rend \in RenderOutcomes :
        get_glyph([c |-> c, font_key |-> font_key, size |-> size],
                  m, ftOk, rend)

NextLcd ==
    LoadFontLcd \/ GetGlyphLcd \/ Metrics \/ UpdateDpr \/ OtherInstancesNext

SpecLcd == Init /\ [][NextLcd]_vars

----------------------------------------------------------------------------
(* font/src/ft/mod.rs: downsample_bitmap.                                  *)

\* How the crate is built: whether a float-to-integer `as` cast saturates
\* (NaN to 0, infinity to the largest value; otherwise the cast of such a
\* value is undefined and the x86-64 conversion yields 2^63), and whether
\* integer overflow panics (debug) or wraps (release).
Builds == [saturating_casts : BOOLEAN, overflow_checks : BOOLEAN]

\* A quotient rounded toward minus infinity.
trunc_div_floor(a, b) == a \div b

\* The quotient of two integers, truncated toward zero: i32 `/`, and the
\* `as i32` cast of a float quotient.
trunc_div(a, b) ==
    LET abs(x) == IF x < 0 THEN -x ELSE x
        q == abs(a) \div abs(b)
    IN  IF (a < 0) = (b < 0) THEN q ELSE -q

\* (a as f32 / b as f32).ceil(): a number, or NaN (0/0), or infinity (a/0).
f32_div_ceil(a, b) ==
    IF b # 0 THEN [kind |-> "num", n |-> (a + b - 1) \div b]
    ELSE IF a = 0 THEN [kind |-> "nan", n |-> 0]
    ELSE [kind |-> "inf", n |-> 0]

\* f32::max: a NaN operand is ignored.
f32_max(x, y) ==
    IF x.kind = "nan" THEN y
    ELSE IF y.kind = "nan" THEN x
    ELSE IF x.kind = "inf" \/ y.kind = "inf" THEN [kind |-> "inf", n |-> 0]
    ELSE IF x.n >= y.n THEN x ELSE y

\* `x as usize`: small is whether the value is the number n (otherwise it is
\* 2^64 - 1 or 2^63), as_i32 what `as i32` makes of the value.
as_usize(x, build) ==
    IF x.kind = "num" THEN [small |-> TRUE, n |-> x.n, as_i32 |-> x.n]
    ELSE IF ~build.saturating_casts
    THEN [small |-> FALSE, n |-> 0, as_i32 |-> 0]
    ELSE IF x.kind = "nan" THEN [small |-> TRUE, n |-> 0, as_i32 |-> 0]
    ELSE [small |-> FALSE, n |-> 0, as_i32 |-> -1]

RECURSIVE sum_over(_, _)
\* The sum of the values f[x] for x in S.
sum_over(f, S) ==
    IF S = {} THEN 0
    ELSE LET x == CHOOSE y \in S : TRUE IN f[x] + sum_over(f, S \ {x})

\* A test that is never true: no factor is taken for an upscale.
would_upscale_never(fixup_factor) == FALSE

\* `if fixup_factor > 1.0`; factors are in hundredths.
would_upscale(fixup_factor) == fixup_factor > 100

\* The body of downsample_bitmap after the upscale test.  The value is
\* [tag, glyph]: tag "Ok" with the glyph returned, or "Panic".
scale_bitmap(bitmap_glyph, fixup_factor, build) ==
    LET bitmap_width == bitmap_glyph.width
        bitmap_height == bitmap_glyph.height
        width == (bitmap_width * fixup_factor) \div 100
        height == (bitmap_height * fixup_factor) \div 100
        b_buf == bitmap_glyph.buf
        advance_step ==
            as_usize(f32_max(f32_div_ceil(bitmap_width, width),
                             f32_div_ceil(bitmap_height, height)), build)
        step == advance_step.n
        \* the source box of the target pixel (line, column)
        lines(line) ==
            {l \in 0..(bitmap_height - 1) :
                l >= line * step /\ l < (line + 1) * step}
        columns(column) ==
            {c \in 0..(bitmap_width - 1) :
                c >= column * step /\ c < (column + 1) * step}
        box(line, column) == lines(line) \X columns(column)
        index(px, k) == px[1] * bitmap_width * 3 + px[2] * 3 + k
        targets == (0..(height - 1)) \X (0..(width - 1))
        out_of_bounds ==
            \E t \in targets : \E px \in box(t[1], t[2]) :
                index(px, 2) >= Len(b_buf)
        channel(line, column, k) ==
            LET picked == box(line, column)
                total == sum_over([px \in picked |-> b_buf[index(px, k) + 1]],
                                  picked)
            IN  IF picked = {} THEN 0 ELSE total \div Cardinality(picked)
        scaled_buffer ==
            [n \in 1..(width * height * 3) |->
                channel(((n - 1) \div 3) \div width, ((n - 1) \div 3) % width,
                        (n - 1) % 3)]
        \* source_line_index += advance_step, once per target line
        overflows == ~advance_step.small /\ height >= 2
        top == trunc_div(trunc_div(bitmap_glyph.top * fixup_factor, 100)
                            + trunc_div(bitmap_glyph.top, advance_step.as_i32),
                         2)
    IN  IF (overflows /\ build.overflow_checks)
           \/ (advance_step.small /\ out_of_bounds)
           \/ advance_step.as_i32 = 0
        THEN [tag |-> "Panic", glyph |-> <<>>]
        ELSE [tag |-> "Ok",
              glyph |-> <<[bitmap_glyph EXCEPT
                  !.top = top,
                  !.left = trunc_div(bitmap_glyph.left * fixup_factor, 100),
                  !.width = width,
                  !.height = height,
                  !.buf = scaled_buffer]>>]

\* downsample_bitmap(bitmap_glyph, fixup_factor)
downsample_bitmap(bitmap_glyph, fixup_factor, build) ==
    IF would_upscale(fixup_factor)
    THEN [tag |-> "Ok", glyph |-> <<bitmap_glyph>>]
    ELSE scale_bitmap(bitmap_glyph, fixup_factor, build)

\* The largest width and height of a source bitmap.
MaxDim == 2

\* The RGB triples of the source pixels.
Pixels == {<<10, 20, 30>>, <<255, 0, 101>>}

RECURSIVE pixel_buffers(_)
\* The buffers of n pixels.
pixel_buffers(n) ==
    IF n = 0 THEN {<<>>}
    ELSE {b \o px : b \in pixel_buffers(n - 1), px \in Pixels}

\* The glyphs get_rendered_glyph hands to downsample_bitmap: the buffer
\* holds 3 * width * height bytes.
Glyphs ==
    UNION {[c : {"z"}, top : {-3, 5}, left : {-3, 3}, width : {w}, height : {h},
            colored : {TRUE}, buf : pixel_buffers(w * h)] :
           w \in 0..MaxDim, h \in 0..MaxDim}

\* The fixup factors, in hundredths.
Factors == {50, 100, 150}

\* A rasterizer about to call downsample_bitmap.
InitDownsample ==
    /\ faces = <<>>
    /\ keys = <<>>
    /\ device_pixel_ratio \in {1}
    /\ pixel_size = 0
    /\ TOKEN = 0
    /\ lcd_filter = "FT_LCD_FILTER_NONE"
    /\ issued = {}
    /\ externals = 0
    /\ ret \in [op : {"args"}, bitmap_glyph : Glyphs, fixup_factor : Factors,
                build : Builds]

\* The call downsample_bitmap(bitmap, fixup_factor) of get_rendered_glyph.
Downsample ==
    /\ ret.op = "args"
    /\ ret' = [op |-> "downsample_bitmap", bitmap_glyph |-> ret.bitmap_glyph,
               fixup_factor |-> ret.fixup_factor, build |-> ret.build,
               result |-> downsample_bitmap(ret.bitmap_glyph,
                                            ret.fixup_factor, ret.build)]
    /\ UNCHANGED <<faces, keys, device_pixel_ratio, pixel_size, TOKEN,
                   lcd_filter, issued, externals>>

SpecDownsample == InitDownsample /\ [][Downsample]_vars

----------------------------------------------------------------------------
(* font/src/ft/mod.rs: the values metrics computes.                        *)

\* An f32 is held as a whole number of 2^-22: 1.0 is F32One.  The product
\* raw * x_scale of a font unit value and a 16.16 scale is then the f32
\* raw * (x_scale / 65536.0) / 64.
F32One == 2 ^ 22

\* f32::round of n / d for d > 0: halves round away from zero.
f32_round_div(n, d) ==
    IF n >= 0 THEN (2 * n + d) \div (2 * d) ELSE -((2 * (-n) + d) \div (2 * d))

\* A metrics whose strikeout fallback takes the underline thickness as the
\* face reports it, before the underline fallback.
metrics_body_reported(face, cell_width) ==
    LET height == trunc_div(face.size_metrics.height, 64)
        descent == trunc_div(face.size_metrics.descender, 64)
        x_scale == face.size_metrics.x_scale
        scaled_position == face.underline_position * x_scale
        scaled_thickness == face.underline_thickness * x_scale
        fallback == scaled_position = 0
    IN  [average_advance |-> cell_width,
         line_height |-> height,
         descent |-> descent * F32One,
         underline_position |->
             IF fallback THEN descent * (F32One \div 2) ELSE scaled_position,
         underline_thickness |->
             IF fallback THEN f32_round_div(descent, 5) * F32One
             ELSE scaled_thickness,
         strikeout_position |->
             IF face.os2 # <<>>
             THEN face.os2[1].y_strikeout_position * x_scale
             ELSE height * (F32One \div 2) + descent * F32One,
         strikeout_thickness |->
             IF face.os2 # <<>>
             THEN face.os2[1].y_strikeout_size * x_scale
             ELSE scaled_thickness,
         underline_fallback |-> fallback,
         os2_fallback |-> face.os2 = <<>>]

\* The body of metrics after its two lookups: face is what the outline
\* backend reports for the Face (size_metrics, the raw underline position
\* and thickness in font units, the OS/2 table if there is one), cell_width
\* the cell width full_metrics computes.  underline_fallback records whether
\* the branch at `if underline_position == 0.` was taken, os2_fallback
\* whether the strikeout values come from the fallback arm.
metrics_body(face, cell_width) ==
    LET height == trunc_div(face.size_metrics.height, 64)
        descent == trunc_div(face.size_metrics.descender, 64)
        x_scale == face.size_metrics.x_scale
        scaled_position == face.underline_position * x_scale
        scaled_thickness == face.underline_thickness * x_scale
        fallback == scaled_position = 0
        underline_thickness ==
            IF fallback THEN f32_round_div(descent, 5) * F32One
            ELSE scaled_thickness
        underline_position ==
            IF fallback THEN descent * (F32One \div 2) ELSE scaled_position
    IN  [average_advance |-> cell_width,
         line_height |-> height,
         descent |-> descent * F32One,
         underline_position |-> underline_position,
         underline_thickness |-> underline_thickness,
         strikeout_position |->
             IF face.os2 # <<>>
             THEN face.os2[1].y_strikeout_position * x_scale
             ELSE height * (F32One \div 2) + descent * F32One,
         strikeout_thickness |->
             IF face.os2 # <<>>
             THEN face.os2[1].y_strikeout_size * x_scale
             ELSE underline_thickness,
         underline_fallback |-> fallback,
         os2_fallback |-> face.os2 = <<>>]

\* The largest magnitude, in pixels, of the descender of a face.
MaxDescent == 5

\* What the outline backend reports for a Face: size metrics in 26.6 pixels
\* with a 16.16 x_scale (0 before a size is set, 1.0, 0.5), underline and
\* strikeout values in font units.
FaceMetrics ==
    [size_metrics : [height : {20 * 64},
                     descender : {-64 * d : d \in (MaxDescent - 1)..MaxDescent}
                                 \cup {-150},
                     x_scale : {0, 32768, 65536}],
     underline_position : {-100, 0, 50},
     underline_thickness : {0, 50},
     os2 : {<<>>, <<[y_strikeout_position |-> 250, y_strikeout_size |-> 50]>>}]

\* A rasterizer about to compute the metrics of a registered Face.
InitMetrics ==
    /\ faces = <<>>
    /\ keys = <<>>
    /\ device_pixel_ratio \in {1}
    /\ pixel_size = 0
    /\ TOKEN = 0
    /\ lcd_filter = "FT_LCD_FILTER_NONE"
    /\ issued = {}
    /\ externals = 0
    /\ ret \in [op : {"args"}, face : FaceMetrics, cell_width : {8}]

\* Rasterize::metrics on a registered Face that has size metrics.
MetricsBody ==
    /\ ret.op = "args"
    /\ ret' = [op |-> "metrics", face |-> ret.face,
               cell_width |-> ret.cell_width,
               result |-> metrics_body(ret.face, ret.cell_width)]
    /\ UNCHANGED <<faces, keys, device_pixel_ratio, pixel_size, TOKEN,
                   lcd_filter, issued, externals>>

SpecMetrics == InitMetrics /\ [][MetricsBody]_vars

----------------------------------------------------------------------------
(* font/src/ft/mod.rs: normalize_buffer.                                   *)

\* A bitmap is [pixel_mode, rows, width, pitch, buffer]; buffer[n + 1] is the
\* byte at offset n.  The value of normalize_buffer is [tag, height, width,
\* packed]: tag "Ok" with the tuple returned (named as get_rendered_glyph
\* names it), "FreeType" for the Err of pixel_mode(), "Panic" for a panic.

min(a, b) == IF a <= b THEN a ELSE b

\* buf[start..stop]; the slice panics when it leaves the buffer.
slice(buf, start, stop) == [n \in 1..(stop - start) |-> buf[start + n]]

RECURSIVE concat(_, _, _)
\* rows_[i] \o ... \o rows_[n - 1]: what the passes of a `for` loop push.
concat(rows_, i, n) ==
    IF i >= n THEN <<>> ELSE rows_[i] \o concat(rows_, i + 1, n)

normalized(height, width, packed) ==
    [tag |-> "Ok", height |-> height, width |-> width, packed |-> packed]

normalize_panic == [tag |-> "Panic", height |-> 0, width |-> 0, packed |-> <<>>]

\* An Lcd arm that copies whole pitch-strided rows, padding included.
normalize_lcd_padded(bitmap) ==
    LET buf == bitmap.buffer
        pitch == bitmap.pitch
        row(i) == slice(buf, i * pitch, i * pitch + pitch)
    IN  IF \E i \in 0..(bitmap.rows - 1) : i * pitch + pitch > Len(buf)
        THEN normalize_panic
        ELSE normalized(bitmap.rows, bitmap.width \div 3,
                        concat([i \in 0..(bitmap.rows - 1) |-> row(i)],
                               0, bitmap.rows))

\* PixelMode::Lcd
normalize_lcd(bitmap) ==
    LET buf == bitmap.buffer
        pitch == bitmap.pitch
        start(i) == i * pitch
        stop(i) == start(i) + bitmap.width
        row(i) == slice(buf, start(i), stop(i))
    IN  IF \E i \in 0..(bitmap.rows - 1) : stop(i) > Len(buf)
        THEN normalize_panic
        ELSE normalized(bitmap.rows, bitmap.width \div 3,
                        concat([i \in 0..(bitmap.rows - 1) |-> row(i)],
                               0, bitmap.rows))

\* An LcdV arm that takes the rows to be width bytes apart.
normalize_lcd_v_packed(bitmap) ==
    LET buf == bitmap.buffer
        height == bitmap.rows \div 3
        offset(i, j, k) == (i * 3 + k) * bitmap.width + j
        row(i) ==
            [n \in 1..(bitmap.width * 3) |->
                buf[offset(i, (n - 1) \div 3, (n - 1) % 3) + 1]]
    IN  IF \E i \in 0..(height - 1), j \in 0..(bitmap.width - 1), k \in 0..2 :
              offset(i, j, k) >= Len(buf)
        THEN normalize_panic
        ELSE normalized(height, bitmap.width,
                        concat([i \in 0..(height - 1) |-> row(i)], 0, height))

\* PixelMode::LcdV
normalize_lcd_v(bitmap) ==
    LET buf == bitmap.buffer
        pitch == bitmap.pitch
        height == bitmap.rows \div 3
        offset(i, j, k) == (i * 3 + k) * pitch + j
        row(i) ==
            [n \in 1..(bitmap.width * 3) |->
                buf[offset(i, (n - 1) \div 3, (n - 1) % 3) + 1]]
    IN  IF \E i \in 0..(height - 1), j \in 0..(bitmap.width - 1), k \in 0..2 :
              offset(i, j, k) >= Len(buf)
        THEN normalize_panic
        ELSE normalized(height, bitmap.width,
                        concat([i \in 0..(height - 1) |-> row(i)], 0, height))

RECURSIVE unpack_byte(_, _, _)
\* An unpack_byte that reads the least significant bit first.
unpack_byte_lsb(byte, count, bit) ==
    [n \in 1..(3 * count) |-> ((byte \div (2 ^ ((n - 1) \div 3))) % 2) * 255]

\* unpack_byte(res, byte, count): what the loop pushes from `bit` on; the
\* function starts it with bit = 7.
unpack_byte(byte, count, bit) ==
    IF count = 0 THEN <<>>
    ELSE LET value == ((byte \div (2 ^ bit)) % 2) * 255
         IN  <<value, value, value>> \o unpack_byte(byte, count - 1, bit - 1)

RECURSIVE unpack_columns(_, _, _, _)
\* The `while columns != 0` loop of the Mono arm for one row.
unpack_columns(buf, offset, byte, columns) ==
    IF columns = 0 THEN <<>>
    ELSE LET bits == min(8, columns)
         IN  unpack_byte(buf[offset + byte + 1], bits, 7)
                 \o unpack_columns(buf, offset, byte + 1, columns - bits)

\* PixelMode::Mono
normalize_mono(bitmap) ==
    LET buf == bitmap.buffer
        offset(i) == i * bitmap.pitch
        bytes == (bitmap.width + 7) \div 8
    IN  IF \E i \in 0..(bitmap.rows - 1) :
              bytes > 0 /\ offset(i) + bytes > Len(buf)
        THEN normalize_panic
        ELSE normalized(bitmap.rows, bitmap.width,
                        concat([i \in 0..(bitmap.rows - 1) |->
                                   unpack_columns(buf, offset(i), 0,
                                                  bitmap.width)],
                               0, bitmap.rows))

\* PixelMode::Gray
normalize_gray(bitmap) ==
    LET buf == bitmap.buffer
        start(i) == i * bitmap.pitch
        stop(i) == start(i) + bitmap.width
        row(i) ==
            [n \in 1..(bitmap.width * 3) |-> buf[start(i) + (n - 1) \div 3 + 1]]
    IN  IF \E i \in 0..(bitmap.rows - 1) : stop(i) > Len(buf)
        THEN normalize_panic
        ELSE normalized(bitmap.rows, bitmap.width,
                        concat([i \in 0..(bitmap.rows - 1) |-> row(i)],
                               0, bitmap.rows))

\* PixelMode::Bgra
normalize_bgra(bitmap) ==
    LET buf == bitmap.buffer
        buf_size == bitmap.rows * bitmap.width * 4
        \* the pass with i = 4 * px pushes buf[i + 2], buf[i + 1], buf[i]
        packed ==
            [n \in 1..((buf_size \div 4) * 3) |->
                buf[4 * ((n - 1) \div 3) + (2 - ((n - 1) % 3)) + 1]]
    IN  IF buf_size > 0 /\ buf_size - 4 + 2 >= Len(buf)
        THEN normalize_panic
        ELSE normalized(bitmap.rows, bitmap.width, packed)

\* The pixel modes freetype-rs knows; pixel_mode() is an Err for any other
\* tag ("Unknown").
PixelModes == {"None", "Mono", "Gray", "Gray2", "Gray4", "Lcd", "LcdV", "Bgra"}

\* FreeTypeRasterizer::normalize_buffer
normalize_buffer(bitmap) ==
    CASE bitmap.pixel_mode \notin PixelModes ->
             [tag |-> "FreeType", height |-> 0, width |-> 0, packed |-> <<>>]
      [] bitmap.pixel_mode = "Lcd" -> normalize_lcd(bitmap)
      [] bitmap.pixel_mode = "LcdV" -> normalize_lcd_v(bitmap)
      [] bitmap.pixel_mode = "Mono" -> normalize_mono(bitmap)
      [] bitmap.pixel_mode = "Gray" -> normalize_gray(bitmap)
      [] bitmap.pixel_mode = "Bgra" -> normalize_bgra(bitmap)
      [] OTHER -> normalize_panic

\* The largest row count, width (in the units of the pixel mode) and row
\* padding (in bytes) of a bitmap.
MaxRows == 6
MaxWidth == 10
MaxPad == 3

\* The bytes one row of the bitmap holds.
row_bytes(pixel_mode, width) ==
    CASE pixel_mode = "Mono" -> (width + 7) \div 8
      [] pixel_mode = "Bgra" -> 4 * width
      [] OTHER -> width

\* The contents of a buffer of len bytes: every offset has its own value, or
\* a mix of bit patterns.
buffers(len) ==
    {[n \in 1..len |-> n % 251], [n \in 1..len |-> (176 + 77 * n) % 256]}

\* The bitmaps the outline backend renders: rows * pitch bytes, the pitch at
\* least the bytes of one row.
Bitmaps ==
    UNION {[pixel_mode : {pm}, rows : {r}, width : {w},
            pitch : {row_bytes(pm, w) + pad},
            buffer : buffers(r * (row_bytes(pm, w) + pad))] :
           pm \in {"Lcd", "LcdV", "Mono", "Gray", "Bgra", "Gray2", "Unknown"},
           r \in 0..MaxRows, w \in 0..MaxWidth, pad \in 0..MaxPad}

\* A rasterizer that has rendered a glyph.
InitNormalize ==
    /\ faces = <<>>
    /\ keys = <<>>
    /\ device_pixel_ratio \in {1}
    /\ pixel_size = 0
    /\ TOKEN = 0
    /\ lcd_filter = "FT_LCD_FILTER_NONE"
    /\ issued = {}
    /\ externals = 0
    /\ ret \in [op : {"args"}, bitmap : Bitmaps]

\* The call Self::normalize_buffer(&glyph.bitmap()) of get_rendered_glyph.
Normalize ==
    /\ ret.op = "args"
    /\ ret' = [op |-> "normalize_buffer", bitmap |-> ret.bitmap,
               result |-> normalize_buffer(ret.bitmap)]
    /\ UNCHANGED <<faces, keys, device_pixel_ratio, pixel_size, TOKEN,
                   lcd_filter, issued, externals>>

SpecNormalize == InitNormalize /\ [][Normalize]_vars

----------------------------------------------------------------------------
(* font/src/lib.rs: FontKey::next called by several threads.               *)

\* The threads (engine instances) that allocate keys.
Threads == 1..3

\* How many calls of FontKey::next are started.
MaxCalls == 5

\* No call is under way, none was made.  pc[t] is where thread t stands in
\* FontKey::next, fetched[t] the value fetch_add gave it, started the number
\* of calls begun and returned the keys returned so far, in order.
InitNext ==
    /\ faces = <<>>
    /\ keys = <<>>
    /\ device_pixel_ratio \in {1}
    /\ pixel_size = 0
    /\ TOKEN = 0
    /\ lcd_filter = "FT_LCD_FILTER_NONE"
    /\ issued = {}
    /\ externals = 0
    /\ ret = [op |-> "FontKey::next",
              pc |-> [t \in Threads |-> "idle"],
              fetched |-> [t \in Threads |-> 0],
              started |-> 0,
              returned |-> <<>>]

\* A fetch_add that reads the counter and does not add to it.
fetch_add_lost(t) ==
    /\ ret.pc[t] = "idle"
    /\ ret.started < MaxCalls
    /\ TOKEN' = TOKEN
    /\ ret' = [ret EXCEPT !.pc[t] = "fetched", !.fetched[t] = TOKEN,
                          !.started = @ + 1]
    /\ UNCHANGED <<faces, keys, device_pixel_ratio, pixel_size, lcd_filter,
                   issued, externals>>

\* TOKEN.fetch_add(1, Ordering::SeqCst) by thread t: one atomic step.
fetch_add(t) ==
    /\ ret.pc[t] = "idle"
    /\ ret.started < MaxCalls
    /\ TOKEN' = TOKEN + 1
    /\ ret' = [ret EXCEPT !.pc[t] = "fetched", !.fetched[t] = TOKEN,
                          !.started = @ + 1]
    /\ UNCHANGED <<faces, keys, device_pixel_ratio, pixel_size, lcd_filter,
                   issued, externals>>

\* Thread t returns FontKey { token: <fetched value> as u16 }.
return_key(t) ==
    /\ ret.pc[t] = "fetched"
    /\ issued' = issued \cup {ret.fetched[t] % TokenModulus}
    /\ ret' = [ret EXCEPT !.pc[t] = "idle",
                          !.returned = Append(@, ret.fetched[t] % TokenModulus)]
    /\ UNCHANGED <<faces, keys, device_pixel_ratio, pixel_size, TOKEN,
                   lcd_filter, externals>>

FetchAdd == \E t \in Threads : fetch_add(t)

ReturnKey == \E t \in Threads : return_key(t)

NextNext == FetchAdd \/ ReturnKey

SpecNext == InitNext /\ [][NextNext]_vars

----------------------------------------------------------------------------
(* src/logging.rs: Logger and OnDemandLogFile.                             *)

\* In this specification ret holds the Logger: level, the lines written to
\* stdout, the pushes to the message bar, and logfile, the OnDemandLogFile
\* [file, created, disk]: file is <<>> for None and <<"open">> for Some,
\* disk is <<>> when no file is at `path` and <<lines>> when a file with
\* these lines is.  A string that the code takes apart is a sequence of
\* characters.

\* log::Level and log::LevelFilter, with their order.
Levels == {"Error", "Warn", "Info", "Debug", "Trace"}

LevelFilters == {"Off"} \cup Levels

level_order ==
    [l \in LevelFilters |->
        CASE l = "Off" -> 0 [] l = "Error" -> 1 [] l = "Warn" -> 2
          [] l = "Info" -> 3 [] l = "Debug" -> 4 [] l = "Trace" -> 5]

\* "alacritty"
Alacritty == <<"a", "l", "a", "c", "r", "i", "t", "t", "y">>

\* The targets of the records: the crate itself, a module of a crate whose
\* name starts with it ("alacritty_terminal::tty"), other crates ("font",
\* "alac"), and the empty target.
Targets ==
    {Alacritty,
     Alacritty \o <<"_", "t", "e", "r", "m", "i", "n", "a", "l", ":", ":",
                    "t", "t", "y">>,
     <<"f", "o", "n", "t">>,
     <<"a", "l", "a", "c">>,
     <<>>}

\* The records handed to the logger.
Records == [level : Levels, target : Targets, args : {"message"}]

\* How many records are logged.
MaxRecords == 2

\* str::starts_with
starts_with(str, prefix) ==
    /\ Len(str) >= Len(prefix)
    /\ SubSeq(str, 1, Len(prefix)) = prefix

\* Logger::enabled
enabled(level, metadata) == level_order[metadata.level] <= level_order[level]

\* A variant of OnDemandLogFile::file that keeps the stale handle when the
\* file cannot be reopened.
file_keep_on_error(logfile, openOk) ==
    IF logfile.file = <<>> \/ logfile.disk = <<>>
    THEN IF openOk
         THEN [logfile |-> [logfile EXCEPT
                               !.file = <<"open">>,
                               !.created = TRUE,
                               !.disk = IF @ = <<>> THEN <<<<>>>> ELSE @],
               tag |-> "Ok",
               stdout |-> <<[kind |-> "Created log file at"]>>]
         ELSE [logfile |-> logfile, tag |-> "Err",
               stdout |-> <<[kind |-> "Unable to create log file"]>>]
    ELSE [logfile |-> logfile, tag |-> "Ok", stdout |-> <<>>]

\* OnDemandLogFile::file.  openOk: whether OpenOptions::open succeeds.  The
\* value is the OnDemandLogFile afterwards, whether Ok or Err is returned,
\* and the lines written to stdout.
file(logfile, openOk) ==
    LET dropped == IF logfile.file # <<>> /\ logfile.disk = <<>>
                   THEN [logfile EXCEPT !.file = <<>>] ELSE logfile
    IN  IF dropped.file = <<>>
        THEN IF openOk
             THEN [logfile |-> [dropped EXCEPT
                                   !.file = <<"open">>,
                                   !.created = TRUE,
                                   !.disk = IF @ = <<>> THEN <<<<>>>> ELSE @],
                   tag |-> "Ok",
                   stdout |-> <<[kind |-> "Created log file at"]>>]
             ELSE [logfile |-> dropped, tag |-> "Err",
                   stdout |-> <<[kind |-> "Unable to create log file"]>>]
        ELSE [logfile |-> dropped, tag |-> "Ok", stdout |-> <<>>]

\* OnDemandLogFile::write (write_all of one message)
write(logfile, buf, openOk) ==
    LET f == file(logfile, openOk)
    IN  IF f.tag = "Ok"
        THEN [f EXCEPT !.logfile.disk = <<Append(f.logfile.disk[1], buf)>>]
        ELSE f

\* The message Logger::log formats for a record.
format(record) ==
    [kind |-> "record", level |-> record.level, args |-> record.args,
     location |-> level_order[record.level] >= level_order["Trace"]]

\* Logger::new(level, message_bar)
InitLog ==
    /\ faces = <<>>
    /\ keys = <<>>
    /\ device_pixel_ratio \in {1}
    /\ pixel_size = 0
    /\ TOKEN = 0
    /\ lcd_filter = "FT_LCD_FILTER_NONE"
    /\ issued = {}
    /\ externals = 0
    /\ ret \in [op : {"Logger::new"}, level : LevelFilters, stdout : {<<>>},
                message_bar : {<<>>},
                logfile : {[file |-> <<>>, created |-> FALSE, disk |-> <<>>]},
                record : {<<>>}, logged : {0}]

\* Logger::log(record)
log(record, openOk) ==
    /\ ret.logged < MaxRecords
    /\ IF enabled(ret.level, record) /\ starts_with(record.target, Alacritty)
       THEN LET msg == format(record)
                w == write(ret.logfile, msg, openOk)
                bar == CASE record.level = "Error" ->
                                <<[msg |-> "Error! See log at", color |-> "RED"]>>
                         [] record.level = "Warn" ->
                                <<[msg |-> "Error! See log at",
                                   color |-> "YELLOW"]>>
                         [] OTHER -> <<>>
            IN  ret' = [ret EXCEPT
                           !.op = "log", !.record = <<record>>,
                           !.logged = @ + 1,
                           !.logfile = w.logfile,
                           !.message_bar = @ \o bar,
                           !.stdout = @ \o w.stdout \o <<msg>>]
       ELSE /\ openOk
            /\ ret' = [ret EXCEPT !.op = "log", !.record = <<record>>,
                                  !.logged = @ + 1]
    /\ UNCHANGED <<faces, keys, device_pixel_ratio, pixel_size, TOKEN,
                   lcd_filter, issued, externals>>

\* Another process deletes the log file.
remove_file ==
    /\ ret.logfile.disk # <<>>
    /\ ret' = [ret EXCEPT !.op = "remove_file", !.logfile.disk = <<>>]
    /\ UNCHANGED <<faces, keys, device_pixel_ratio, pixel_size, TOKEN,
                   lcd_filter, issued, externals>>

Log == \E record \in Records, openOk \in BOOLEAN : log(record, openOk)

NextLog == Log \/ remove_file

SpecLog == InitLog /\ [][NextLog]_vars

----------------------------------------------------------------------------
(* OnDemandLogFile on its own: writes, flushes and deletions of the file.  *)
(* ret holds the log file, the last call and its result, the number of     *)
(* calls (calls) and of successful OpenOptions::open calls (opens).        *)

\* The buffers handed to write.
Bufs == {"a", "b"}

\* How many writes and flushes are made.
MaxWrites == 4

\* OnDemandLogFile::flush
flush(logfile, openOk) == file(logfile, openOk)

\* OnDemandLogFile::new
InitOnDemand ==
    /\ faces = <<>>
    /\ keys = <<>>
    /\ device_pixel_ratio \in {1}
    /\ pixel_size = 0
    /\ TOKEN = 0
    /\ lcd_filter = "FT_LCD_FILTER_NONE"
    /\ issued = {}
    /\ externals = 0
    /\ ret = [op |-> "OnDemandLogFile::new",
              logfile |-> [file |-> <<>>, created |-> FALSE, disk |-> <<>>],
              tag |-> "", stdout |-> <<>>, buf |-> <<>>, openOk |-> TRUE,
              calls |-> 0, opens |-> 0]

\* What a call leaves in ret: r is the value of write or flush.
called(op, r, buf, openOk) ==
    [op |-> op, logfile |-> r.logfile, tag |-> r.tag, stdout |-> r.stdout,
     buf |-> buf, openOk |-> openOk, calls |-> ret.calls + 1,
     opens |-> IF r.stdout = <<[kind |-> "Created log file at"]>>
               THEN ret.opens + 1 ELSE ret.opens]

\* <OnDemandLogFile as Write>::write(buf)
Write ==
    /\ ret.calls < MaxWrites
    /\ \E buf \in Bufs, openOk \in BOOLEAN :
          ret' = called("write", write(ret.logfile, buf, openOk), <<buf>>,
                        openOk)
    /\ UNCHANGED <<faces, keys, device_pixel_ratio, pixel_size, TOKEN,
                   lcd_filter, issued, externals>>

\* <OnDemandLogFile as Write>::flush()
Flush ==
    /\ ret.calls < MaxWrites
    /\ \E openOk \in BOOLEAN :
          ret' = called("flush", flush(ret.logfile, openOk), <<>>, openOk)
    /\ UNCHANGED <<faces, keys, device_pixel_ratio, pixel_size, TOKEN,
                   lcd_filter, issued, externals>>

\* Another process deletes the log file.
Unlink ==
    /\ ret.logfile.disk # <<>>
    /\ ret' = [ret EXCEPT !.op = "unlink", !.logfile.disk = <<>>]
    /\ UNCHANGED <<faces, keys, device_pixel_ratio, pixel_size, TOKEN,
                   lcd_filter, issued, externals>>

NextOnDemand == Write \/ Flush \/ Unlink

SpecOnDemand == InitOnDemand /\ [][NextOnDemand]_vars

----------------------------------------------------------------------------
(* The winpty wrapper: Winpty::open, Winpty::set_size and Winpty::spawn.   *)
(* A winpty_error_t pointer is <<>> when null and <<[code, msg]>> when it  *)
(* points to an error object.  ret holds the Winpty object, the last call, *)
(* what the library reported for it (ok, err) and what the call returned.  *)

\* The nonzero values of winpty_error_code (ErrorCodes without Success).
ErrorCodes == 1 .. 8

\* The messages of the error objects.
Messages == {"CreateProcess failed", "lost connection"}

\* How many calls are made on the wrapper.
MaxSpawns == 3

\* What a library call reports: a nonzero value and a null error on success,
\* zero and an error object on failure.
AgentReports ==
    {[ok |-> 1, err |-> <<>>]}
        \cup {[ok |-> 0, err |-> <<[code |-> c, msg |-> m]>>] :
                 c \in ErrorCodes, m \in Messages}

\* winpty_error_code: WINPTY_ERROR_SUCCESS for a null pointer.
winpty_error_code(e) == IF e = <<>> THEN 0 ELSE e[1].code

\* winpty_error_msg: "Success" for a null pointer.
winpty_error_msg(e) == IF e = <<>> THEN "Success" ELSE e[1].msg

\* check_err(e): Some(Err { code, message }) when the code is not zero.
check_err(e) ==
    LET err == [code |-> winpty_error_code(e), message |-> winpty_error_msg(e)]
    IN  IF err.code # 0 THEN <<err>> ELSE <<>>

\* The Result of a call that returns check_err's error, or Ok.
result_of(err) ==
    IF err # <<>> THEN [tag |-> "Err", err |-> err]
                  ELSE [tag |-> "Ok", err |-> <<>>]

\* Winpty::spawn(cfg).  report: what winpty_spawn returns and writes to err.
spawn(report) ==
    LET err == report.err
        ok == report.ok
    IN  IF ok = 0 THEN [tag |-> "Ok", err |-> <<>>]
                  ELSE result_of(check_err(err))

\* Winpty::set_size(cols, rows)
set_size(report) == result_of(check_err(report.err))

\* Winpty::open(cfg)
open(report) == result_of(check_err(report.err))

\* No Winpty object yet.
InitSpawn ==
    /\ faces = <<>>
    /\ keys = <<>>
    /\ device_pixel_ratio \in {1}
    /\ pixel_size = 0
    /\ TOKEN = 0
    /\ lcd_filter = "FT_LCD_FILTER_NONE"
    /\ issued = {}
    /\ externals = 0
    /\ ret = [op |-> "", winpty |-> <<>>, report |-> [ok |-> 1, err |-> <<>>],
              result |-> [tag |-> "Ok", err |-> <<>>], calls |-> 0]

Open ==
    /\ ret.winpty = <<>>
    /\ ret.calls < MaxSpawns
    /\ \E report \in AgentReports :
          LET r == open(report)
          IN  ret' = [op |-> "open",
                      winpty |-> IF r.tag = "Ok"
                                 THEN <<[spawned |-> FALSE, resized |-> FALSE]>>
                                 ELSE <<>>,
                      report |-> report, result |-> r,
                      calls |-> ret.calls + 1]
    /\ UNCHANGED <<faces, keys, device_pixel_ratio, pixel_size, TOKEN,
                   lcd_filter, issued, externals>>

\* The agent spawns a process at most once per Winpty object.
Spawn ==
    /\ ret.winpty # <<>>
    /\ ret.calls < MaxSpawns
    /\ \E report \in AgentReports :
          /\ ret.winpty[1].spawned => report.ok = 0
          /\ ret' = [ret EXCEPT
                        !.op = "spawn",
                        !.winpty[1].spawned = @ \/ report.ok # 0,
                        !.report = report,
                        !.result = spawn(report),
                        !.calls = @ + 1]
    /\ UNCHANGED <<faces, keys, device_pixel_ratio, pixel_size, TOKEN,
                   lcd_filter, issued, externals>>

SetSize ==
    /\ ret.winpty # <<>>
    /\ ret.calls < MaxSpawns
    /\ \E report \in AgentReports :
          ret' = [ret EXCEPT
                     !.op = "set_size",
                     !.winpty[1].resized = @ \/ report.ok # 0,
                     !.report = report,
                     !.result = set_size(report),
                     !.calls = @ + 1]
    /\ UNCHANGED <<faces, keys, device_pixel_ratio, pixel_size, TOKEN,
                   lcd_filter, issued, externals>>

NextSpawn == Open \/ Spawn \/ SetSize

SpecSpawn == InitSpawn /\ [][NextSpawn]_vars

----------------------------------------------------------------------------
(* font/src/ft/mod.rs: the attributes derived from every pattern.          *)

\* An attribute of a pattern: absent, or one of its values.
optional(values) == {<<>>} \cup {<<v>> : v \in values}

\* The rendering attributes of the patterns fc::font_match can return.
AttrPatterns ==
    [antialias : optional(BOOLEAN),
     hintstyle : optional({"None", "Slight", "Medium", "Full"}),
     rgba : optional({"Unknown", "Rgb", "Bgr", "Vrgb", "Vbgr", "None"}),
     embeddedbitmap : optional(BOOLEAN),
     color : optional(BOOLEAN),
     lcdfilter : optional({"None", "Default", "Light", "Legacy"})]

\* A rasterizer about to derive the attributes of a Face from a pattern.
InitAttrs ==
    /\ faces = <<>>
    /\ keys = <<>>
    /\ device_pixel_ratio \in {1}
    /\ pixel_size = 0
    /\ TOKEN = 0
    /\ lcd_filter = "FT_LCD_FILTER_NONE"
    /\ issued = {}
    /\ externals = 0
    /\ ret \in [op : {"args"}, pat : AttrPatterns]

\* The three derivations of face_from_pattern.
DeriveAttrs ==
    /\ ret.op = "args"
    /\ ret' = [op |-> "face_from_pattern", pat |-> ret.pat,
               load_flags |-> ft_load_flags(ret.pat),
               render_mode |-> ft_render_mode(ret.pat),
               lcd_filter |-> ft_lcd_filter(ret.pat)]
    /\ UNCHANGED <<faces, keys, device_pixel_ratio, pixel_size, TOKEN,
                   lcd_filter, issued, externals>>

SpecAttrs == InitAttrs /\ [][DeriveAttrs]_vars

----------------------------------------------------------------------------
(* font/src/ft/mod.rs: face_from_pattern on every kind of match.           *)

\* The patterns a match can be: with or without the scalable attribute and
\* with zero, one or two discrete pixel sizes.
FacePatterns ==
    {[MkPattern(<<path>>, <<0>>, fixup, pr) EXCEPT
         !.scalable = scalable, !.pixelsize = pixelsize] :
        path \in {"mono.ttf", "emoji.ttc"},
        fixup \in {<<>>, Half},
        pr \in {ProfileLcd, ProfileBitmap},
        scalable \in optional(BOOLEAN),
        pixelsize \in {<<>>, <<20>>, <<12, 20>>}}

\* A new rasterizer about to load the face of a pattern.
InitFace ==
    /\ faces = <<>>
    /\ keys = <<>>
    /\ device_pixel_ratio \in {1}
    /\ pixel_size = 0
    /\ TOKEN = 0
    /\ lcd_filter = "FT_LCD_FILTER_NONE"
    /\ issued = {}
    /\ externals = 0
    /\ ret \in [op : {"args"}, pattern : FacePatterns, ftOk : BOOLEAN]

\* FreeTypeRasterizer::face_from_pattern(pattern)
LoadFace ==
    /\ ret.op = "args"
    /\ \E r \in {face_from_pattern(faces, keys, TOKEN, ret.pattern, ret.ftOk)} :
          /\ faces' = r.faces
          /\ keys' = r.keys
          /\ TOKEN' = r.TOKEN
          /\ issued' = issued \cup {r.created[i] : i \in DOMAIN r.created}
          /\ ret' = [op |-> "face_from_pattern", pattern |-> ret.pattern,
                     ftOk |-> ret.ftOk, outcome |-> r.tag, key |-> r.key,
                     created |-> r.created]
    /\ UNCHANGED <<device_pixel_ratio, pixel_size, lcd_filter, externals>>

SpecFace == InitFace /\ [][LoadFace]_vars

----------------------------------------------------------------------------
(* font/src/ft/mod.rs: two runs of get_rendered_glyph side by side.        *)

\* The bitmap the outline backend renders for a glyph of a face: the color
\* font has one strike of 2 x 2 BGRA pixels, the other fonts render one row
\* of gray pixels.
render_glyph(ft_face, index) ==
    IF has_color(ft_face)
    THEN [pixel_mode |-> "Bgra", rows |-> 2, width |-> 2, pitch |-> 8,
          buffer |-> [n \in 1..16 |-> (37 * n + index) % 256]]
    ELSE [pixel_mode |-> "Gray", rows |-> 1, width |-> 2, pitch |-> 2,
          buffer |-> <<200 + index, 17>>]

\* size_metrics().y_ppem of the strike of the color font, in pixels.
y_ppem == 8

\* The part of get_rendered_glyph after face_for_glyph, every call of the
\* outline backend succeeding.  px is self.pixel_size (half pixels); the
\* fallback factor px / 2 / y_ppem is held in hundredths, exact for the sizes
\* drawn.
rendered_glyph(face, glyph_key, px, build) ==
    LET index == get_char_index(face.ft_face, glyph_key.c)
        n == normalize_buffer(render_glyph(face.ft_face, index))
        bitmap == [c |-> glyph_key.c, top |-> 5, left |-> 3,
                   width |-> n.width, height |-> n.height,
                   colored |-> face.has_color, buf |-> n.packed]
        fixup_factor ==
            IF face.pixelsize_fixup_factor = 0
            THEN (px * 50) \div y_ppem
            ELSE face.pixelsize_fixup_factor
    IN  IF n.tag # "Ok" THEN [tag |-> n.tag, glyph |-> <<>>]
        ELSE IF face.has_color
        THEN downsample_bitmap(bitmap, fixup_factor, build)
        ELSE [tag |-> "Ok", glyph |-> <<bitmap>>]

\* The sizes passed to load_font (Size.0: half points).
SizesRuns == {6, 12}

\* One run: the rasterizer's cache, counter and pixel_size, and the result
\* of its last call.
NewRun ==
    [faces |-> <<>>, keys |-> <<>>, TOKEN |-> 0, pixel_size |-> 0,
     outcome |-> "Ok", key |-> <<>>, glyph |-> <<>>]

\* Rasterize::load_font in one run.
run_load_font(run, desc, size, m, ftOk) ==
    LET r == get_face(run.faces, run.keys, run.TOKEN, desc, m, ftOk)
    IN  [run EXCEPT !.faces = r.faces, !.keys = r.keys, !.TOKEN = r.TOKEN,
                    !.pixel_size = get_face_size(size, device_pixel_ratio),
                    !.outcome = r.tag, !.key = r.key]

\* Rasterize::get_glyph in one run.
run_get_glyph(run, glyph_key, m, ftOk, build) ==
    LET r == face_for_glyph(run.faces, run.keys, run.TOKEN, glyph_key, FALSE,
                            m, ftOk)
        cached == [run EXCEPT !.faces = r.faces, !.keys = r.keys,
                              !.TOKEN = r.TOKEN]
    IN  IF r.tag # "Ok" \/ r.key[1] \notin DOMAIN r.faces
        THEN [cached EXCEPT !.outcome = "Panic", !.key = <<>>]
        ELSE LET g == rendered_glyph(r.faces[r.key[1]], glyph_key,
                                     run.pixel_size, build)
             IN  [cached EXCEPT !.outcome = g.tag, !.key = r.key,
                                !.glyph = g.glyph]

\* Two new rasterizers with the same device pixel ratio, in the same build.
InitRuns ==
    /\ faces = <<>>
    /\ keys = <<>>
    /\ device_pixel_ratio \in Ratios
    /\ pixel_size = 0
    /\ TOKEN = 0
    /\ lcd_filter = "FT_LCD_FILTER_NONE"
    /\ issued = {}
    /\ externals = 0
    /\ ret \in [op : {"new"}, a : {NewRun}, b : {NewRun}, build : Builds,
                glyph_key : {<<>>}]

\* Both runs register a face with the same load_font call.
RunsRegister ==
    /\ ret.op = "new"
    /\ \E desc \in Descs, size \in SizesRuns, p \in Patterns :
          /\ p.file # <<>> /\ p.index # <<>>
          /\ ret' = [ret EXCEPT
                        !.op = "registered",
                        !.a = run_load_font(ret.a, desc, size, <<p>>, TRUE),
                        !.b = run_load_font(ret.b, desc, size, <<p>>, TRUE)]
    /\ UNCHANGED <<faces, keys, device_pixel_ratio, pixel_size, TOKEN,
                   lcd_filter, issued, externals>>

\* Both runs call load_font again, answered alike; only the size differs.
RunsLoadFont ==
    /\ ret.op = "registered"
    /\ \E desc \in Descs, size_a \in SizesRuns, size_b \in SizesRuns,
          m \in FontMatches, ftOk \in BOOLEAN :
          ret' = [ret EXCEPT
                     !.op = "loaded",
                     !.a = run_load_font(ret.a, desc, size_a, m, ftOk),
                     !.b = run_load_font(ret.b, desc, size_b, m, ftOk)]
    /\ UNCHANGED <<faces, keys, device_pixel_ratio, pixel_size, TOKEN,
                   lcd_filter, issued, externals>>

\* Both runs call get_glyph with the same GlyphKey of a registered FontKey.
\* The charset query carries self.pixel_size: a deterministic fc::font_match
\* answers equal queries alike.
RunsGetGlyph ==
    /\ ret.op = "loaded"
    /\ \E c \in Chars, font_key \in DOMAIN ret.a.faces, size \in SizesRuns,
          m_a \in FontMatches, m_b \in FontMatches, ftOk \in BOOLEAN :
          LET glyph_key == [c |-> c, font_key |-> font_key, size |-> size]
          IN  /\ ret.a.pixel_size = ret.b.pixel_size => m_a = m_b
              /\ ret' = [ret EXCEPT
                            !.op = "get_glyph",
                            !.glyph_key = <<glyph_key>>,
                            !.a = run_get_glyph(ret.a, glyph_key, m_a, ftOk,
                                                ret.build),
                            !.b = run_get_glyph(ret.b, glyph_key, m_b, ftOk,
                                                ret.build)]
    /\ UNCHANGED <<faces, keys, device_pixel_ratio, pixel_size, TOKEN,
                   lcd_filter, issued, externals>>

NextRuns == RunsRegister \/ RunsLoadFont \/ RunsGetGlyph

SpecRuns == InitRuns /\ [][NextRuns]_vars

----------------------------------------------------------------------------
(* alacritty/src/renderer/rects.rs: RenderLines.                           *)

\* RenderLines.inner is a HashMap from a flag to the Vec of its RenderLines;
\* a RenderLine is [start, end, color] with Points [line, col].

\* The flags update keeps lines for.
LineFlags == {"UNDERLINE", "DOUBLE_UNDERLINE", "STRIKEOUT"}

\* How many cells are fed to update.
MaxCells == 3

\* The cells of a small grid: two lines, three columns, two colours.
Cells ==
    [line : 0..1, column : 0..2, fg : {"red", "blue"},
     flags : {{"UNDERLINE"}, {"UNDERLINE", "WIDE_CHAR"},
              {"DOUBLE_UNDERLINE", "STRIKEOUT"}}]

\* Point::from(cell)
cell_point(cell) == [line |-> cell.line, col |-> cell.column]

\* An update_flag that does not compare the line of the cell with the line
\* the active RenderLine ends on.
update_flag_any_line(inner, cell, flag) ==
    IF flag \notin cell.flags THEN inner
    ELSE LET stop == [cell_point(cell) EXCEPT
                         !.col = IF "WIDE_CHAR" \in cell.flags
                                 THEN @ + 1 ELSE @]
             active == flag \in DOMAIN inner /\ inner[flag] # <<>>
             last == inner[flag][Len(inner[flag])]
             new == [start |-> cell_point(cell), end |-> stop,
                     color |-> cell.fg]
         IN  IF active /\ cell.fg = last.color /\ cell.column = last.end.col + 1
             THEN [inner EXCEPT ![flag][Len(inner[flag])].end = stop]
             ELSE IF flag \in DOMAIN inner
             THEN [inner EXCEPT ![flag] = Append(@, new)]
             ELSE insert(inner, flag, <<new>>)

\* RenderLines::update_flag
update_flag(inner, cell, flag) ==
    IF flag \notin cell.flags THEN inner
    ELSE LET stop == [cell_point(cell) EXCEPT
                         !.col = IF "WIDE_CHAR" \in cell.flags
                                 THEN @ + 1 ELSE @]
             active == flag \in DOMAIN inner /\ inner[flag] # <<>>
             last == inner[flag][Len(inner[flag])]
             new == [start |-> cell_point(cell), end |-> stop,
                     color |-> cell.fg]
         IN  IF /\ active
                /\ cell.fg = last.color
                /\ cell.column = last.end.col + 1
                /\ cell.line = last.end.line
             THEN [inner EXCEPT ![flag][Len(inner[flag])].end = stop]
             ELSE IF flag \in DOMAIN inner
             THEN [inner EXCEPT ![flag] = Append(@, new)]
             ELSE insert(inner, flag, <<new>>)

\* RenderLines::update
update(inner, cell) ==
    update_flag(update_flag(update_flag(inner, cell, "UNDERLINE"),
                            cell, "DOUBLE_UNDERLINE"),
                cell, "STRIKEOUT")

\* RenderLines::new
InitLines ==
    /\ faces = <<>>
    /\ keys = <<>>
    /\ device_pixel_ratio \in {1}
    /\ pixel_size = 0
    /\ TOKEN = 0
    /\ lcd_filter = "FT_LCD_FILTER_NONE"
    /\ issued = {}
    /\ externals = 0
    /\ ret = [op |-> "RenderLines::new", inner |-> <<>>, cell |-> <<>>,
              fed |-> 0]

\* One call of update with the next cell.
Update ==
    /\ ret.fed < MaxCells
    /\ \E cell \in Cells :
          ret' = [op |-> "update", inner |-> update(ret.inner, cell),
                  cell |-> <<cell>>, fed |-> ret.fed + 1]
    /\ UNCHANGED <<faces, keys, device_pixel_ratio, pixel_size, TOKEN,
                   lcd_filter, issued, externals>>

SpecLines == InitLines /\ [][Update]_vars

----------------------------------------------------------------------------
(* Properties.                                                             *)

\* The primary face of the get_glyph call recorded in ret' is registered
\* before the call and does not map the character.
AbsentFromPrimary ==
    /\ ret'.op = "get_glyph"
    /\ ret'.font_key[1] \in DOMAIN faces
    /\ get_char_index(faces[ret'.font_key[1]].ft_face, ret'.c) = 0

\* The answer of fc::font_match recorded in r names a file and a face index.
NamesFile(r) ==
    /\ r.match # <<>>
    /\ r.match[1].file # <<>>
    /\ r.match[1].index # <<>>

\* C1: a load_font that repeats the load_font just before it (same
\* description and size at the same device pixel ratio, hence the same query,
\* answered by the backend with the same match) returns the key the first
\* call returned, loads and creates no Face and leaves both indexes and the
\* key counter as they are.
C1_LoadFontIdempotent ==
    [][ret'.op = "load_font" /\ ret'.repeats # <<>>
          => /\ ret'.outcome = "Ok"
             /\ ret'.key = ret'.repeats
             /\ ret'.loads = <<>>
             /\ ret'.created = <<>>
             /\ faces' = faces
             /\ keys' = keys
             /\ TOKEN' = TOKEN]_vars

\* A load_font has just repeated the successful load_font before it.
C1_Witness ==
    ret.op = "load_font" /\ ret.repeats # <<>> /\ ret.match # <<>>

\* C2: the path index and the face index are consistent: every indexed key
\* has a Face that stores this key, every Face is the target of exactly one
\* indexed path, and the two indexes have the same number of entries.
C2_IndexesConsistent ==
    /\ \A p \in DOMAIN keys :
          keys[p] \in DOMAIN faces /\ faces[keys[p]].key = keys[p]
    /\ \A k \in DOMAIN faces :
          Cardinality({p \in DOMAIN keys : keys[p] = k}) = 1
    /\ Cardinality(DOMAIN faces) = Cardinality(DOMAIN keys)

\* C3: the key load_font returns for a match denotes the Face of exactly the
\* (file path, face index) the match names, so that matches naming different
\* pairs, also the same path with different indices, get distinct keys and
\* distinct Faces.
C3_KeyPerPathAndIndex ==
    ret.op = "load_font" /\ ret.outcome = "Ok"
        => /\ ret.key[1] \in DOMAIN faces
           /\ faces[ret.key[1]].ft_face =
                 [path |-> ret.match[1].file[1], index |-> ret.match[1].index[1]]

\* C4: a key FontKey::next returns was not returned by it before.
C4_KeysNeverReused ==
    [][\A i \in DOMAIN ret'.created : ret'.created[i] \notin issued]_vars

\* C5: no call hands Library::new_face a path that is already indexed.
C5_NoReload ==
    [][\A i \in DOMAIN ret'.loads : ret'.loads[i] \notin DOMAIN keys]_vars

\* A load_font or a fallback search was answered with an indexed path and
\* loaded nothing.
C5_Witness ==
    /\ ret.op \in {"load_font", "get_glyph"}
    /\ NamesFile(ret)
    /\ ret.match[1].file[1] \in DOMAIN keys
    /\ ret.loads = <<>>
    /\ ret.created = <<>>
    /\ ret.outcome = "Ok"

\* C6 (Scenario A): when the primary face is registered and maps the
\* character, the resolved key is the primary key, no charset-fallback query
\* is issued, and both indexes and every Face are unchanged.
C6_ScenarioA ==
    [][(/\ ret'.op = "get_glyph"
        /\ ret'.font_key[1] \in DOMAIN faces
        /\ get_char_index(faces[ret'.font_key[1]].ft_face, ret'.c) # 0)
          => /\ ret'.key = ret'.font_key
             /\ ret'.queries = 0
             /\ ret'.loads = <<>>
             /\ faces' = faces
             /\ keys' = keys]_vars

\* A get_glyph resolved to its primary face without a fallback query.
C6_Witness ==
    /\ ret.op = "get_glyph"
    /\ ret.outcome = "Ok"
    /\ ret.queries = 0
    /\ ret.key = ret.font_key
    /\ get_char_index(faces[ret.font_key[1]].ft_face, ret.c) # 0

\* C7 (Scenario B): when the character is absent from the primary face and
\* the fallback match names a file that is not indexed and that loads, one
\* Face is created, filed under the resolved key, and its path is the one new
\* entry of the path index; an indexed path keeps its key for ever; and when
\* the fallback match names an indexed file, the resolved key is the key of
\* that path, nothing is loaded and no Face is created.
C7_ScenarioB ==
    [][/\ \A p \in DOMAIN keys : p \in DOMAIN keys' /\ keys'[p] = keys[p]
       /\ (/\ AbsentFromPrimary
           /\ NamesFile(ret')
           /\ ret'.match[1].file[1] \notin DOMAIN keys
           /\ ret'.dropped = <<>>
           /\ ret'.key # <<>>)
             => /\ ret'.loads = ret'.match[1].file
                /\ Len(ret'.created) = 1
                /\ ret'.created = ret'.key
                /\ DOMAIN keys' = DOMAIN keys \cup {ret'.match[1].file[1]}
                /\ keys'[ret'.match[1].file[1]] = ret'.key[1]
                /\ ret'.key[1] \in DOMAIN faces'
                /\ faces'[ret'.key[1]].key = ret'.key[1]
                /\ faces'[ret'.key[1]].ft_face.path = ret'.match[1].file[1]
       /\ (/\ AbsentFromPrimary
           /\ NamesFile(ret')
           /\ ret'.match[1].file[1] \in DOMAIN keys)
             => /\ ret'.key = <<keys[ret'.match[1].file[1]]>>
                /\ ret'.loads = <<>>
                /\ ret'.created = <<>>
                /\ keys' = keys
                /\ DOMAIN faces' = DOMAIN faces]_vars

\* A character absent from the primary face was resolved to the Face of an
\* indexed fallback file, which is not the primary face, without a load.
C7_Witness ==
    /\ ret.op = "get_glyph"
    /\ ret.queries = 1
    /\ NamesFile(ret)
    /\ ret.loads = <<>>
    /\ ret.created = <<>>
    /\ ret.font_key[1] \in DOMAIN faces
    /\ get_char_index(faces[ret.font_key[1]].ft_face, ret.c) = 0
    /\ ret.key = <<keys[ret.match[1].file[1]]>>
    /\ ret.key # ret.font_key

\* C8: a get_glyph issues at most one charset-fallback query and at most one
\* face load, re-enters face_for_glyph at most once, and ends.
C8_BoundedFallback ==
    ret.op = "get_glyph"
        => /\ ret.queries <= 1
           /\ Len(ret.loads) <= 1
           /\ ret.reentries <= 1
           /\ ret.outcome \in {"Ok", "FreeType", "Panic"}

\* A get_glyph issued its fallback query and loaded the face it found.
C8_Witness ==
    /\ ret.op = "get_glyph"
    /\ ret.queries = 1
    /\ Len(ret.loads) = 1
    /\ ret.created # <<>>

\* C9: when the primary face does not map the character and the backend
\* has no match for the charset query, the call fails with MissingFont
\* carrying the synthesized description and resolves no FontKey.
C9_NoMatchIsMissingFont ==
    [][AbsentFromPrimary /\ ret'.match = <<>>
          => /\ ret'.outcome = "MissingFont"
             /\ ret'.key = <<>>
             /\ ret'.desc =
                   <<FontDesc_new("no-fallback-for", Specific(ret'.c))>>]_vars

\* C10: metrics and get_glyph on a FontKey that is not registered return
\* FontNotLoaded.
C10_UnregisteredIsFontNotLoaded ==
    [][(/\ ret'.op \in {"metrics", "get_glyph"}
        /\ ret'.font_key[1] \notin DOMAIN faces)
          => ret'.outcome = "FontNotLoaded"]_vars

\* C11: a load_font whose query the backend answers with no match, or with
\* a match that lacks its file path or its face index, fails with MissingFont
\* carrying the requested description (of either style), loads and creates
\* no Face, indexes no path and allocates no FontKey.
C11_LoadFontMissingFont ==
    [][ret'.op = "load_font" /\ ~NamesFile(ret')
          => /\ ret'.outcome = "MissingFont"
             /\ ret'.key = <<>>
             /\ \E d \in Descs :
                   /\ ret'.query = <<load_query(d, pixel_size')>>
                   /\ ret'.desc = <<d>>
             /\ ret'.loads = <<>>
             /\ ret'.created = <<>>
             /\ faces' = faces
             /\ keys' = keys
             /\ TOKEN' = TOKEN
             /\ issued' = issued]_vars

\* A load_font with a Specific style was answered with a match that lacks
\* its path or index, and failed with MissingFont.
C11_Witness ==
    /\ ret.op = "load_font"
    /\ ret.outcome = "MissingFont"
    /\ ret.match # <<>>
    /\ ret.desc[1].style.kind = "Specific"

\* C12: a load_font whose match names an indexed path returns the key of
\* that path and changes no field of any Face, neither index and not the key
\* counter, whatever attributes the match carries.
C12_LoadFontHitRefreshesNothing ==
    [][(/\ ret'.op = "load_font"
        /\ NamesFile(ret')
        /\ ret'.match[1].file[1] \in DOMAIN keys)
          => /\ ret'.outcome = "Ok"
             /\ ret'.key = <<keys[ret'.match[1].file[1]]>>
             /\ ret'.loads = <<>>
             /\ ret'.created = <<>>
             /\ faces' = faces
             /\ keys' = keys
             /\ TOKEN' = TOKEN]_vars

\* A load_font returned the cached key of a Face whose stored
\* pixelsize_fixup_factor and lcd filter differ from those of the match.
C12_Witness ==
    /\ ret.op = "load_font"
    /\ ret.outcome = "Ok"
    /\ ret.loads = <<>>
    /\ ret.key[1] \in DOMAIN faces
    /\ faces[ret.key[1]].pixelsize_fixup_factor #
          unwrap_or(ret.match[1].pixelsizefixupfactor, 0)
    /\ faces[ret.key[1]].lcd_filter # ft_lcd_filter(ret.match[1])

\* C13: a get_glyph whose fallback match names an indexed path resolves to
\* the key of that path and sets the pixelsize_fixup_factor of the Face under
\* that key to the factor of the match, 0 when the match has none; no other
\* field of that Face, no other Face and neither index changes.
C13_FallbackHitRefreshesFixup ==
    [][(/\ ret'.op = "get_glyph"
        /\ ret'.queries = 1
        /\ NamesFile(ret')
        /\ ret'.match[1].file[1] \in DOMAIN keys)
          => /\ ret'.key = <<keys[ret'.match[1].file[1]]>>
             /\ ret'.loads = <<>>
             /\ ret'.created = <<>>
             /\ faces' = [faces EXCEPT
                   ![keys[ret'.match[1].file[1]]].pixelsize_fixup_factor =
                       unwrap_or(ret'.match[1].pixelsizefixupfactor, 0)]
             /\ keys' = keys
             /\ TOKEN' = TOKEN]_vars

\* A fallback search found the indexed emoji.ttc, loaded from the match of
\* index 0 with the factor 0.5, and reset the Face's factor to 0.
C13_Witness ==
    /\ ret.op = "get_glyph"
    /\ ret.queries = 1
    /\ ret.loads = <<>>
    /\ NamesFile(ret)
    /\ ret.match[1].file = <<"emoji.ttc">>
    /\ ret.key # <<>>
    /\ ret.key[1] \in DOMAIN faces
    /\ faces[ret.key[1]].ft_face = [path |-> "emoji.ttc", index |-> 0]
    /\ faces[ret.key[1]].pixelsize_fixup_factor = 0

\* C14: whenever get_glyph has rendered a glyph of a Face without color, the
\* library's render-time lcd filter is the lcd filter stored in that Face,
\* whatever Faces were rendered before.
C14_LcdFilterSerialized ==
    (/\ ret.op = "get_glyph"
     /\ ret.outcome \in {"Ok", "Panic"}
     /\ ret.key # <<>>
     /\ ret.key[1] \in DOMAIN faces
     /\ ~faces[ret.key[1]].has_color)
        => lcd_filter = faces[ret.key[1]].lcd_filter

\* A glyph of the Face with the Legacy filter was rendered by a rasterizer
\* that also holds a Face with the Light filter and a color Face.
C14_Witness ==
    /\ ret.op = "get_glyph"
    /\ ret.outcome = "Ok"
    /\ ret.key[1] \in DOMAIN faces
    /\ faces[ret.key[1]].lcd_filter = "FT_LCD_FILTER_LEGACY"
    /\ lcd_filter = "FT_LCD_FILTER_LEGACY"
    /\ \E k \in DOMAIN faces : faces[k].lcd_filter = "FT_LCD_FILTER_LIGHT"
    /\ \E k \in DOMAIN faces : faces[k].has_color

\* C15: update_dpr changes the stored device pixel ratio and nothing else:
\* both indexes, every Face, the key counter, the pixel size and the lcd
\* filter are unchanged, and every FontKey handed out before is still
\* registered.
C15_UpdateDprFrame ==
    [][ret'.op = "update_dpr"
          => /\ faces' = faces
             /\ keys' = keys
             /\ TOKEN' = TOKEN
             /\ pixel_size' = pixel_size
             /\ lcd_filter' = lcd_filter
             /\ issued \subseteq DOMAIN faces'
             /\ \A p \in DOMAIN keys : keys[p] \in DOMAIN faces']_vars

\* update_dpr changed the ratio of a rasterizer that holds a Face loaded at
\* the other ratio.
C15_Witness ==
    /\ ret.op = "update_dpr"
    /\ DOMAIN faces # {}
    /\ DOMAIN keys # {}
    /\ pixel_size # 0
    /\ \A size \in Sizes : pixel_size # get_face_size(size, device_pixel_ratio)

\* C16: for a fixup factor above 1.0 downsample_bitmap returns the glyph it
\* was given: width, height, top, left, colored flag and buffer unchanged.
C16_NeverUpscales ==
    ret.op = "downsample_bitmap" /\ ret.fixup_factor > 100
        => ret.result = [tag |-> "Ok", glyph |-> <<ret.bitmap_glyph>>]

\* downsample_bitmap was called with the factor 1.5 on a 2 x 2 glyph.
C16_Witness ==
    /\ ret.op = "downsample_bitmap"
    /\ ret.fixup_factor = 150
    /\ ret.bitmap_glyph.width = 2
    /\ ret.bitmap_glyph.height = 2
    /\ ret.result.tag = "Ok"

\* C17: for the fixup factor 1.0 and a glyph whose buffer holds
\* 3 * width * height bytes, a width or height of 0 included,
\* downsample_bitmap returns a glyph with the same width, height and buffer.
C17_DownsampleIdentity ==
    (/\ ret.op = "downsample_bitmap"
     /\ ret.fixup_factor = 100
     /\ Len(ret.bitmap_glyph.buf) =
           3 * ret.bitmap_glyph.width * ret.bitmap_glyph.height)
        => /\ ret.result.tag = "Ok"
           /\ ret.result.glyph[1].width = ret.bitmap_glyph.width
           /\ ret.result.glyph[1].height = ret.bitmap_glyph.height
           /\ ret.result.glyph[1].buf = ret.bitmap_glyph.buf

\* C18: metrics replaces the underline position and thickness by the
\* fallback values (thickness round(descent / 5), position descent / 2)
\* exactly when the raw underline position of the face is 0, whatever the
\* raw thickness and x_scale are; otherwise it returns the scaled values.
C18_UnderlineFallbackIffRawZero ==
    ret.op = "metrics" =>
        LET descent == trunc_div(ret.face.size_metrics.descender, 64)
            x_scale == ret.face.size_metrics.x_scale
        IN  /\ ret.result.underline_fallback
                  <=> ret.face.underline_position = 0
            /\ IF ret.face.underline_position = 0
               THEN /\ ret.result.underline_thickness =
                          f32_round_div(descent, 5) * F32One
                    /\ ret.result.underline_position =
                          descent * (F32One \div 2)
               ELSE /\ ret.result.underline_thickness =
                          ret.face.underline_thickness * x_scale
                    /\ ret.result.underline_position =
                          ret.face.underline_position * x_scale

\* C19: for an Lcd bitmap with R rows, a raw width W that is a multiple of 3
\* and a pitch P >= W, normalize_buffer returns width W / 3, height R and
\* the first W bytes of every pitch-strided row, row after row, without the
\* P - W padding bytes.
C19_LcdRows ==
    (/\ ret.op = "normalize_buffer"
     /\ ret.bitmap.pixel_mode = "Lcd"
     /\ ret.bitmap.width % 3 = 0
     /\ ret.bitmap.pitch >= ret.bitmap.width)
        => LET R == ret.bitmap.rows
               W == ret.bitmap.width
               P == ret.bitmap.pitch
           IN  /\ ret.result.tag = "Ok"
               /\ ret.result.width * 3 = W
               /\ ret.result.height = R
               /\ ret.result.packed =
                     [n \in 1..(R * W) |->
                         ret.bitmap.buffer[((n - 1) \div W) * P
                                              + ((n - 1) % W) + 1]]

\* The Lcd bitmap of raw width 9, pitch 12 and 2 rows was normalized to
\* width 3, height 2.
C19_Witness ==
    /\ ret.op = "normalize_buffer"
    /\ ret.bitmap.pixel_mode = "Lcd"
    /\ ret.bitmap.width = 9
    /\ ret.bitmap.pitch = 12
    /\ ret.bitmap.rows = 2
    /\ ret.result.tag = "Ok"
    /\ ret.result.width = 3
    /\ ret.result.height = 2
    /\ Len(ret.result.packed) = 18

\* C20: for a Mono bitmap with R rows, W bits per row and pitch P, pixel
\* (r, c) of the output is (v, v, v) with v = 255 when bit 7 - c mod 8 of
\* the byte at offset r * P + floor(c / 8) is set and v = 0 otherwise, and
\* every row has exactly W pixels.
C20_MonoUnpack ==
    (/\ ret.op = "normalize_buffer"
     /\ ret.bitmap.pixel_mode = "Mono")
        => LET R == ret.bitmap.rows
               W == ret.bitmap.width
               P == ret.bitmap.pitch
               v(r, c) ==
                   ((ret.bitmap.buffer[r * P + c \div 8 + 1]
                        \div (2 ^ (7 - (c % 8)))) % 2) * 255
           IN  /\ ret.result.tag = "Ok"
               /\ ret.result.width = W
               /\ ret.result.height = R
               /\ ret.result.packed =
                     [n \in 1..(3 * R * W) |->
                         v(((n - 1) \div 3) \div W, ((n - 1) \div 3) % W)]

\* A Mono bitmap of 2 rows of 10 bits, with padding bits in the last byte
\* of a row and padding bytes after it, was unpacked to both values.
C20_Witness ==
    /\ ret.op = "normalize_buffer"
    /\ ret.bitmap.pixel_mode = "Mono"
    /\ ret.bitmap.rows = 2
    /\ ret.bitmap.width = 10
    /\ ret.bitmap.pitch = 3
    /\ ret.result.tag = "Ok"
    /\ Len(ret.result.packed) = 60
    /\ \E n \in 1..60 : ret.result.packed[n] = 255
    /\ \E n \in 1..60 : ret.result.packed[n] = 0

\* C21: for a bitmap whose pixel mode is none of Lcd, LcdV, Mono, Gray and
\* Bgra, normalize_buffer returns the UnsupportedPixelMode error to its
\* caller and produces no buffer.
C21_UnsupportedPixelMode ==
    (/\ ret.op = "normalize_buffer"
     /\ ret.bitmap.pixel_mode \notin {"Lcd", "LcdV", "Mono", "Gray", "Bgra"})
        => /\ ret.result.tag = "UnsupportedPixelMode"
           /\ ret.result.packed = <<>>

\* C22: when the fallback match of a get_glyph names a file that is not
\* indexed and Library::new_face fails on it, get_glyph returns that
\* FreeType error: the failure is not replaced by a successful result.
C22_FallbackFailureSurfaces ==
    (/\ ret.op = "get_glyph"
     /\ ret.queries = 1
     /\ ret.loads # <<>>
     /\ ret.dropped = <<"FreeType">>)
        => /\ ret.outcome = "FreeType"
           /\ ret.key = <<>>

\* C23: while fewer than 65536 calls of FontKey::next have been made, by
\* whatever threads and in whatever interleaving, no two calls have returned
\* the same key, and as many distinct keys are issued as calls returned.
C23_ConcurrentKeysDistinct ==
    (ret.op = "FontKey::next" /\ ret.started < TokenModulus)
        => /\ \A i, j \in DOMAIN ret.returned :
                 i # j => ret.returned[i] # ret.returned[j]
           /\ Cardinality(issued) = Len(ret.returned)

\* Two threads were inside FontKey::next at once and the one that fetched
\* later returned first.
C23_Witness ==
    /\ ret.op = "FontKey::next"
    /\ Len(ret.returned) >= 3
    /\ \E i \in DOMAIN ret.returned :
          i + 1 \in DOMAIN ret.returned /\ ret.returned[i] > ret.returned[i + 1]
    /\ \E t \in Threads : ret.pc[t] = "fetched"

\* C24: every record whose level is sufficient for the level of the Logger
\* is written to stdout, whatever its target.
C24_SufficientLevelIsWritten ==
    [][(/\ ret'.op = "log"
        /\ level_order[ret'.record[1].level] <= level_order[ret.level])
          => /\ Len(ret'.stdout) > Len(ret.stdout)
             /\ ret'.stdout[Len(ret'.stdout)] = format(ret'.record[1])]_vars

\* A pattern that carries the five attributes the load flags are derived
\* from.
HasFlagAttrs(pat) ==
    /\ pat.antialias # <<>>
    /\ pat.hintstyle # <<>>
    /\ pat.rgba # <<>>
    /\ pat.embeddedbitmap # <<>>
    /\ pat.color # <<>>

\* C25: for every antialias, hinting, subpixel order, embeddedbitmap and
\* color value the load flags are those of the table: without antialias
\* NO_HINTING | MONOCHROME for hinting None and TARGET_MONO | MONOCHROME
\* otherwise; with antialias NO_HINTING | TARGET_NORMAL for None,
\* TARGET_LIGHT for Slight, and for Medium and Full TARGET_LCD with Rgb or
\* Bgr, TARGET_LCD_V with Vrgb or Vbgr and TARGET_NORMAL with Unknown or
\* None; plus NO_BITMAP exactly when embeddedbitmap is false and COLOR
\* exactly when color is true.
C25_LoadFlagsTable ==
    (ret.op = "face_from_pattern" /\ HasFlagAttrs(ret.pat)) =>
        LET a == ret.pat.antialias[1]
            h == ret.pat.hintstyle[1]
            g == ret.pat.rgba[1]
            table ==
                IF ~a
                THEN IF h = "None" THEN {"NO_HINTING", "MONOCHROME"}
                     ELSE {"TARGET_MONO", "MONOCHROME"}
                ELSE IF h = "None" THEN {"NO_HINTING", "TARGET_NORMAL"}
                ELSE IF h = "Slight" THEN {"TARGET_LIGHT"}
                ELSE IF g \in {"Rgb", "Bgr"} THEN {"TARGET_LCD"}
                ELSE IF g \in {"Vrgb", "Vbgr"} THEN {"TARGET_LCD_V"}
                ELSE {"TARGET_NORMAL"}
        IN  /\ ret.load_flags \ {"NO_BITMAP", "COLOR"} = table
            /\ "NO_BITMAP" \in ret.load_flags <=> ~ret.pat.embeddedbitmap[1]
            /\ "COLOR" \in ret.load_flags <=> ret.pat.color[1]

\* The flags of an antialiased, slightly hinted Rgb pattern without embedded
\* bitmaps and with color were derived.
C25_Witness ==
    /\ ret.op = "face_from_pattern"
    /\ ret.pat.antialias = <<TRUE>>
    /\ ret.pat.hintstyle = <<"Slight">>
    /\ ret.pat.rgba = <<"Rgb">>
    /\ ret.pat.embeddedbitmap = <<FALSE>>
    /\ ret.pat.color = <<TRUE>>
    /\ ret.load_flags = {"TARGET_LIGHT", "NO_BITMAP", "COLOR"}

\* C26: the render mode is Mono without antialias, whatever the subpixel
\* order, and with antialias Lcd for Rgb and Bgr, LcdV for Vrgb and Vbgr and
\* Normal for Unknown and None; the hinting attribute has no part in it.
C26_RenderModeTable ==
    (/\ ret.op = "face_from_pattern"
     /\ ret.pat.antialias # <<>>
     /\ ret.pat.rgba # <<>>)
        => ret.render_mode =
              IF ~ret.pat.antialias[1] THEN "Mono"
              ELSE IF ret.pat.rgba[1] \in {"Rgb", "Bgr"} THEN "Lcd"
              ELSE IF ret.pat.rgba[1] \in {"Vrgb", "Vbgr"} THEN "LcdV"
              ELSE "Normal"

\* The render mode of an antialiased Vbgr pattern without hinting was
\* derived.
C26_Witness ==
    /\ ret.op = "face_from_pattern"
    /\ ret.pat.antialias = <<TRUE>>
    /\ ret.pat.rgba = <<"Vbgr">>
    /\ ret.pat.hintstyle = <<"None">>
    /\ ret.render_mode = "LcdV"

\* C27: a loaded face is recorded as non-scalable, with the first discrete
\* pixel size of the match as its fixed size, exactly when the scalable
\* attribute of the match is absent or false, and as scalable, without a
\* fixed size, only when the attribute is present and true.
C27_NonScalableIffAbsentOrFalse ==
    (ret.op = "face_from_pattern" /\ ret.created # <<>>) =>
        LET face == faces[ret.created[1]]
        IN  /\ face.non_scalable # <<>>
                <=> ret.pattern.scalable \in {<<>>, <<FALSE>>}
            /\ face.non_scalable # <<>>
                => face.non_scalable = <<ret.pattern.pixelsize[1]>>
            /\ face.non_scalable = <<>> => ret.pattern.scalable = <<TRUE>>

\* C28: for a Bgra bitmap of R rows, width W and pitch P >= 4 * W the result
\* has width W and height R, and its pixel (r, c) is the (R, G, B) of the
\* B, G, R, A bytes at offset r * P + 4 * c of the source.
C28_BgraRows ==
    (ret.op = "normalize_buffer" /\ ret.bitmap.pixel_mode = "Bgra") =>
        LET b == ret.bitmap
            res == ret.result
        IN  /\ res.tag = "Ok"
            /\ res.height = b.rows
            /\ res.width = b.width
            /\ Len(res.packed) = 3 * b.rows * b.width
            /\ \A r \in 0..(b.rows - 1), c \in 0..(b.width - 1), k \in 0..2 :
                  res.packed[3 * (r * b.width + c) + k + 1]
                      = b.buffer[r * b.pitch + 4 * c + (2 - k) + 1]

\* C29: for an LcdV bitmap of H raw rows, H a multiple of 3, width W and
\* pitch P >= W the result has height H / 3 and width W, and channel k of its
\* pixel (i, j) is the source byte at offset (3 * i + k) * P + j.
C29_LcdVRows ==
    (/\ ret.op = "normalize_buffer"
     /\ ret.bitmap.pixel_mode = "LcdV"
     /\ ret.bitmap.rows % 3 = 0) =>
        LET b == ret.bitmap
            res == ret.result
        IN  /\ res.tag = "Ok"
            /\ res.height = b.rows \div 3
            /\ res.width = b.width
            /\ Len(res.packed) = 3 * res.height * b.width
            /\ \A i \in 0..(res.height - 1), j \in 0..(b.width - 1),
                  k \in 0..2 :
                  res.packed[3 * (i * b.width + j) + k + 1]
                      = b.buffer[(3 * i + k) * b.pitch + j + 1]

\* An LcdV bitmap of six padded raw rows and several columns was normalized
\* into two rows.
C29_Witness ==
    /\ ret.op = "normalize_buffer"
    /\ ret.bitmap.pixel_mode = "LcdV"
    /\ ret.bitmap.rows = 6
    /\ ret.bitmap.width >= 2
    /\ ret.bitmap.pitch > ret.bitmap.width
    /\ ret.result.tag = "Ok"
    /\ ret.result.height = 2
    /\ Len(ret.result.packed) = 6 * ret.bitmap.width

\* C30: for every glyph and every fixup factor <= 1.0 downsample_bitmap
\* returns a glyph of width floor(source width * factor), height
\* floor(source height * factor) and a buffer of 3 * width * height bytes;
\* every target pixel is the integer average of the RGB triples of its source
\* box, clipped to the source, and every byte read lies in the source buffer.
C30_DownsampleAverages ==
    (ret.op = "downsample_bitmap" /\ ret.fixup_factor <= 100) =>
        /\ ret.result.tag = "Ok"
        /\ LET src == ret.bitmap_glyph
               out == ret.result.glyph[1]
               bigger(a, b) == IF a >= b THEN a ELSE b
               step == bigger((src.width + out.width - 1) \div out.width,
                              (src.height + out.height - 1) \div out.height)
               box(i, j) ==
                   {px \in (0..(src.height - 1)) \X (0..(src.width - 1)) :
                       /\ px[1] >= i * step /\ px[1] < (i + 1) * step
                       /\ px[2] >= j * step /\ px[2] < (j + 1) * step}
               at(px, k) == (px[1] * src.width + px[2]) * 3 + k + 1
           IN  /\ out.width = (src.width * ret.fixup_factor) \div 100
               /\ out.height = (src.height * ret.fixup_factor) \div 100
               /\ Len(out.buf) = 3 * out.width * out.height
               /\ \A i \in 0..(out.height - 1), j \in 0..(out.width - 1),
                     k \in 0..2 :
                     /\ box(i, j) # {}
                     /\ \A px \in box(i, j) : at(px, k) \in DOMAIN src.buf
                     /\ out.buf[(i * out.width + j) * 3 + k + 1]
                           = sum_over([px \in box(i, j) |->
                                          src.buf[at(px, k)]], box(i, j))
                               \div Cardinality(box(i, j))

\* C31: for every fixup factor in (0, 1.0] and every source glyph, also one
\* of width or height 0 and one whose target width or height is 0,
\* downsample_bitmap completes without an arithmetic fault, and every target
\* pixel whose clipped source box holds no pixel is black.
C31_DownsampleNoFault ==
    (/\ ret.op = "downsample_bitmap"
     /\ ret.fixup_factor > 0
     /\ ret.fixup_factor <= 100) =>
        /\ ret.result.tag = "Ok"
        /\ LET src == ret.bitmap_glyph
               out == ret.result.glyph[1]
               bigger(a, b) == IF a >= b THEN a ELSE b
               step == bigger((src.width + out.width - 1) \div out.width,
                              (src.height + out.height - 1) \div out.height)
               empty(i, j) ==
                   \/ i * step >= src.height
                   \/ j * step >= src.width
           IN  \A i \in 0..(out.height - 1), j \in 0..(out.width - 1) :
                   empty(i, j) =>
                       \A k \in 1..3 :
                           out.buf[(i * out.width + j) * 3 + k] = 0

C33_StrikeoutMetrics ==
    ret.op = "metrics" =>
        IF ret.face.os2 = <<>>
        THEN /\ ret.result.os2_fallback
             /\ 2 * ret.result.strikeout_position =
                   ret.result.line_height * F32One + 2 * ret.result.descent
             /\ ret.result.strikeout_thickness = ret.result.underline_thickness
        ELSE /\ ~ret.result.os2_fallback
             /\ ret.result.strikeout_position =
                   ret.face.os2[1].y_strikeout_position
                       * ret.face.size_metrics.x_scale
             /\ ret.result.strikeout_thickness =
                   ret.face.os2[1].y_strikeout_size
                       * ret.face.size_metrics.x_scale

\* The metrics of a face without OS/2 table were computed, the underline
\* fallback replacing the thickness the face reports.
C33_Witness ==
    /\ ret.op = "metrics"
    /\ ret.face.os2 = <<>>
    /\ ret.result.underline_fallback
    /\ ret.face.underline_thickness * ret.face.size_metrics.x_scale
          # ret.result.underline_thickness
    /\ ret.result.strikeout_thickness = ret.result.underline_thickness

\* C34: a get_glyph for a registered FontKey whose resolved Face maps the
\* character to glyph index 0 loads and renders glyph index 0 and returns a
\* glyph, not an error, whether or not the fallback query found a match.
C34_AbsentGlyphIsNoError ==
    [][(/\ ret'.op = "get_glyph"
        /\ ret'.font_key[1] \in DOMAIN faces
        /\ ret'.key # <<>>
        /\ ret'.key[1] \in DOMAIN faces'
        /\ get_char_index(faces'[ret'.key[1]].ft_face, ret'.c) = 0
        /\ ret'.rend = "ok")
           => (ret'.outcome = "Ok" /\ ret'.index = <<0>>)]_vars

\* The fallback query for a character the registered Face does not map found
\* no match, and the placeholder of that Face was rendered.
C34_Witness ==
    /\ ret.op = "get_glyph"
    /\ ret.queries = 1
    /\ ret.match = <<>>
    /\ ret.key = ret.font_key
    /\ ret.index = <<0>>
    /\ ret.rend = "ok"
    /\ ret.outcome = "Ok"

\* C35: two runs with the same device pixel ratio that differ only in the
\* size of a load_font call made between the registration of the faces and
\* get_glyph(k) return the same glyph for k: same resolved face, same width,
\* height and buffer.
C35_GlyphIndependentOfLoadSize ==
    ret.op = "get_glyph" =>
        /\ ret.a.outcome = ret.b.outcome
        /\ ret.a.key = ret.b.key
        /\ ret.a.glyph = ret.b.glyph

\* C36: a load of a font file that fails in the outline backend, during
\* load_font or during the fallback search of get_glyph, leaves faces and
\* keys as they were, consumes no FontKey and leaves the path unindexed.
C36_FailedLoadChangesNothing ==
    [][(/\ ret'.op \in {"load_font", "get_glyph"}
        /\ ret'.loads # <<>>
        /\ \/ ret'.op = "load_font" /\ ret'.outcome = "FreeType"
           \/ ret'.op = "get_glyph" /\ ret'.dropped = <<"FreeType">>)
           => /\ faces' = faces
              /\ keys' = keys
              /\ TOKEN' = TOKEN
              /\ ret'.created = <<>>
              /\ ret'.loads[1] \notin DOMAIN keys']_vars

\* With a Face in the cache, the load of another file failed during the
\* fallback search of get_glyph.
C36_Witness ==
    /\ ret.op = "get_glyph"
    /\ ret.dropped = <<"FreeType">>
    /\ ret.loads # <<>>
    /\ faces # <<>>
    /\ ret.loads[1] \notin DOMAIN keys

\* C37: for every pixel mode normalize_buffer handles and every bitmap, the
\* buffer returned holds exactly 3 * width * height bytes for the width and
\* height returned, also for an Lcd bitmap whose raw width and an LcdV bitmap
\* whose raw row count is no multiple of 3.
C37_BufferSize ==
    (/\ ret.op = "normalize_buffer"
     /\ ret.bitmap.pixel_mode \in {"Lcd", "LcdV", "Mono", "Gray", "Bgra"}) =>
        /\ ret.result.tag = "Ok"
        /\ Len(ret.result.packed) = 3 * ret.result.width * ret.result.height

\* C38: for each of UNDERLINE, DOUBLE_UNDERLINE and STRIKEOUT, update with a
\* cell that carries the flag extends the most recent line of the flag if and
\* only if the cell's foreground is the line's colour, its line the line's
\* end line and its column the line's end column + 1, the new end covering
\* the spacer of a wide char; otherwise it appends a line starting at the
\* cell; a cell without the flag leaves the lines of the flag as they are;
\* and every stored line starts and ends on the same terminal line.
C38_RenderLinesUpdate ==
    [][ret'.op = "update" =>
        \A flag \in LineFlags :
            LET cell == ret'.cell[1]
                stored(inner) ==
                    IF flag \in DOMAIN inner THEN inner[flag] ELSE <<>>
                old == stored(ret.inner)
                new == stored(ret'.inner)
                recent == old[Len(old)]
                covered == IF "WIDE_CHAR" \in cell.flags
                           THEN cell.column + 1 ELSE cell.column
                extends ==
                    /\ old # <<>>
                    /\ cell.fg = recent.color
                    /\ cell.line = recent.end.line
                    /\ cell.column = recent.end.col + 1
            IN  /\ flag \notin cell.flags => new = old
                /\ (flag \in cell.flags /\ extends) =>
                      /\ Len(new) = Len(old)
                      /\ \A i \in 1..(Len(old) - 1) : new[i] = old[i]
                      /\ new[Len(new)].start = recent.start
                      /\ new[Len(new)].color = recent.color
                      /\ new[Len(new)].end =
                            [line |-> cell.line, col |-> covered]
                /\ (flag \in cell.flags /\ ~extends) =>
                      new = old \o
                            <<[start |-> [line |-> cell.line,
                                          col |-> cell.column],
                               end |-> [line |-> cell.line, col |-> covered],
                               color |-> cell.fg]>>
                /\ \A i \in 1..Len(new) :
                      new[i].start.line = new[i].end.line]_vars

\* A wide char in column 1 extended the underline that began in column 0: it
\* now ends on the spacer in column 2.
C38_Witness ==
    /\ ret.op = "update"
    /\ "WIDE_CHAR" \in ret.cell[1].flags
    /\ "UNDERLINE" \in DOMAIN ret.inner
    /\ Len(ret.inner["UNDERLINE"]) = 1
    /\ ret.inner["UNDERLINE"][1].start.col = 0
    /\ ret.inner["UNDERLINE"][1].end.col = 2

\* C39: OnDemandLogFile creates its file lazily and recreates it on demand.
\* Before the first write or flush nothing is opened and no file exists; the
\* created flag is true exactly when an open has succeeded; a write or flush
\* that finds its handle and its path reuses the handle without opening; any
\* other opens the path (appending to what is there, creating it otherwise),
\* and when that open fails the call returns the error, leaves file unset and
\* creates nothing.
C39_LazyLogFile ==
    /\ [](/\ ret.logfile.created <=> ret.opens > 0
          /\ ret.calls = 0 =>
                /\ ret.logfile.file = <<>>
                /\ ret.logfile.disk = <<>>)
    /\ [][ret'.op \in {"write", "flush"} =>
            LET pre == ret.logfile
                post == ret'.logfile
                reuse == pre.file # <<>> /\ pre.disk # <<>>
                before == IF pre.disk = <<>> THEN <<>> ELSE pre.disk[1]
                after == IF ret'.op = "write"
                         THEN before \o ret'.buf ELSE before
            IN  IF reuse
                THEN /\ ret'.tag = "Ok"
                     /\ post.file = pre.file
                     /\ ret'.opens = ret.opens
                     /\ post.disk = <<after>>
                ELSE IF ret'.openOk
                THEN /\ ret'.tag = "Ok"
                     /\ post.file # <<>>
                     /\ ret'.opens = ret.opens + 1
                     /\ post.disk = <<after>>
                ELSE /\ ret'.tag = "Err"
                     /\ post.file = <<>>
                     /\ ret'.opens = ret.opens
                     /\ post.created = pre.created
                     /\ post.disk = pre.disk]_vars

\* A write reopened the file after it was deleted, and a later open failed
\* after another deletion.
C39_Witness ==
    /\ ret.op = "flush"
    /\ ret.tag = "Err"
    /\ ret.opens = 1
    /\ ret.logfile.created
    /\ ret.logfile.file = <<>>

\* C40: Winpty::spawn returns Err with the agent's error whenever winpty_spawn
\* reports failure (returns 0 and sets an error), and returns Ok only when
\* winpty_spawn reports that the process was spawned.
C40_SpawnReportsFailure ==
    ret.op = "spawn" =>
        /\ ret.report.ok = 0 =>
              /\ ret.result.tag = "Err"
              /\ ret.result.err =
                    <<[code |-> ret.report.err[1].code,
                       message |-> ret.report.err[1].msg]>>
        /\ ret.result.tag = "Ok" => ret.report.ok # 0

====
